---- MODULE Spec2Model ----
(***************************************************************************)
(* A model of evorl's GAE estimator (evorl/utils/toolkits.py) and of the   *)
(* population-based-training scheduler with its exploit/explore operator   *)
(* (evorl/agents/meta/pbt_distributed.py).                                 *)
(*                                                                         *)
(* Random keys are paths of split indices: jax.random.split(key, n)[i] is  *)
(* Append(key, <<n, i>>), so distinct splits give distinct keys.  Values   *)
(* drawn from a key are nondeterministic choices from small sets.          *)
(***************************************************************************)
EXTENDS Integers, Sequences, FiniteSets, TLC

VARIABLES
    \* ---- compute_gae: arguments, position and results
    dones, rewards, values, gae_lambda, discount, gae_pc, lambda_retruns, advantages,
    \* ---- PBTWorkflow: the configuration; state, the State learn
    \* holds; the locals of step (pop, pop_workflow_state,
    \* pop_episode_returns and the branch jax.lax.cond took); the
    \* position in learn/step; learn's loop index; the locals of the
    \* last call of exploit_and_explore
    config, state, pop, pop_workflow_state, pop_episode_returns, branch, pbt_pc, learn_i, ee,
    \* ---- PBTWorkflow.build_from_config: the configuration it is
    \* given, the number of devices, and the warnings logged
    build_config, devices, logger,
    \* ---- PBTWorkflow.learn: what recorder.write and
    \* checkpoint_manager.save were called with, in order
    recorder, checkpoint_manager,
    \* ---- PBTWorkflow.setup: workflow.optimizer, the field setup
    \* assigns; prng, what jax.random.uniform returns for each key;
    \* setups, the key and the result of every call of setup so far
    optimizer, prng, setups,
    \* ---- agent_gradient_update: the arguments f is called with, the
    \* position and what it returned
    gu_args, gu_pc, gu_ret,
    \* ---- PPOWorkflow: its configuration; what DictConfig does for a
    \* key that is not there ("raise" since OmegaConf 2.1, "None"
    \* before); the position; the warnings logged; the minibatches of
    \* the epoch trained last
    ppo_config, missing_key, ppo_pc, ppo_logger, ppo_minibatches,
    \* ---- envpool.py: which of EnvPoolAdapter and
    \* create_envpool_gym_env is called, its arguments, the position,
    \* the envpool.make_* calls made so far, and what the call returned
    \* or raised
    env_call, env_args, env_pc, env_made, env_ret,
    \* ---- PPOAgent.loss: the agent's settings and the PRNG
    \* implementation, the batch, the transitions appended to it, the
    \* position, the noise the entropy estimate drew in each call, and
    \* the LossDict of each call
    loss_cfg, loss_batch, loss_extra, loss_pc, loss_noise, loss_ret,
    \* ---- the training phase of PBTWorkflow.step as written: the
    \* configuration, the State step is called with, the position, and
    \* what the call of train_steps_fn returned or raised
    train_config, train_state, train_pc, train_ret,
    \* ---- the epochs of PPOWorkflow.step: the configuration, the key
    \* carried into the next epoch, the position, and for every epoch
    \* run its permutation key and the minibatches of every field of the
    \* trajectory
    shuf_config, shuf_key, shuf_pc, shuf_epochs,
    \* ---- an EnvPoolAdapter in use: whether OneEpisodeWrapper wraps
    \* it, the episodes of the pool behind it, the position, the
    \* EnvState returned last, and what the pool returned at every step
    epi_wrapped, epi_pool, epi_pc, epi_state, epi_outs,
    \* ---- open_es.py: which of compute_ranks and
    \* compute_centered_ranks is called, the array x, the position and
    \* what the call returned
    rk_call, rk_x, rk_pc, rk_ret,
    \* ---- PPOWorkflow.learn: the configuration, the iteration counter
    \* of the state learn was started from, the state, the loop variable
    \* i, the position, the calls made in order (step, recorder.write,
    \* evaluate, checkpoint_manager.save, each with its index), and the
    \* indices the checkpoint manager holds
    pl_config, pl_start, pl_state, pl_i, pl_pc, pl_log, pl_saved

gaeVars == <<dones, rewards, values, gae_lambda, discount, gae_pc, lambda_retruns, advantages>>

pbtVars == <<config, state, pop, pop_workflow_state, pop_episode_returns, branch, pbt_pc, learn_i, ee>>

buildVars == <<build_config, devices, logger>>

learnVars == <<recorder, checkpoint_manager>>

setupVars == <<optimizer, prng, setups>>

gradVars == <<gu_args, gu_pc, gu_ret>>

ppoVars == <<ppo_config, missing_key, ppo_pc, ppo_logger, ppo_minibatches>>

envVars == <<env_call, env_args, env_pc, env_made, env_ret>>

lossVars == <<loss_cfg, loss_batch, loss_extra, loss_pc, loss_noise, loss_ret>>

trainVars == <<train_config, train_state, train_pc, train_ret>>

shufVars == <<shuf_config, shuf_key, shuf_pc, shuf_epochs>>

epiVars == <<epi_wrapped, epi_pool, epi_pc, epi_state, epi_outs>>

rkVars == <<rk_call, rk_x, rk_pc, rk_ret>>

plVars == <<pl_config, pl_start, pl_state, pl_i, pl_pc, pl_log, pl_saved>>

vars == <<gaeVars, pbtVars, buildVars, learnVars, setupVars, gradVars, ppoVars, envVars, lossVars, trainVars, shufVars, epiVars, rkVars, plVars>>

\* compute_gae is not being called
GaeIdle ==
    /\ dones = <<>>
    /\ rewards = <<>>
    /\ values = <<>>
    /\ gae_lambda = 0
    /\ discount = 0
    /\ gae_pc = "idle"
    /\ lambda_retruns = <<>>
    /\ advantages = <<>>

\* no PBTWorkflow has been built
PbtIdle ==
    /\ config = <<>>
    /\ state = <<>>
    /\ pop = <<>>
    /\ pop_workflow_state = <<>>
    /\ pop_episode_returns = <<>>
    /\ branch = "none"
    /\ pbt_pc = "idle"
    /\ learn_i = 0
    /\ ee = <<>>

\* build_from_config was not called
BuildIdle ==
    /\ build_config = <<>>
    /\ devices = 0
    /\ logger = <<>>

\* nothing was recorded or saved
LearnIdle ==
    /\ recorder = <<>>
    /\ checkpoint_manager = <<>>

\* setup was not called
SetupIdle ==
    /\ optimizer = "none"
    /\ prng = <<>>
    /\ setups = <<>>

\* the gradient update function is not being called
GradIdle ==
    /\ gu_args = <<>>
    /\ gu_pc = "idle"
    /\ gu_ret = <<>>

\* no PPOWorkflow is being built
PpoIdle ==
    /\ ppo_config = <<>>
    /\ missing_key = "none"
    /\ ppo_pc = "idle"
    /\ ppo_logger = <<>>
    /\ ppo_minibatches = <<>>

\* no EnvPool environment is being created
EnvIdle ==
    /\ env_call = "none"
    /\ env_args = <<>>
    /\ env_pc = "idle"
    /\ env_made = <<>>
    /\ env_ret = <<>>

\* PPOAgent.loss is not being called
LossIdle ==
    /\ loss_cfg = <<>>
    /\ loss_batch = <<>>
    /\ loss_extra = <<>>
    /\ loss_pc = "idle"
    /\ loss_noise = <<>>
    /\ loss_ret = <<>>

\* no training phase on its own
TrainIdle ==
    /\ train_config = <<>>
    /\ train_state = <<>>
    /\ train_pc = "idle"
    /\ train_ret = <<>>

\* no epochs of PPOWorkflow.step are being run
ShufIdle ==
    /\ shuf_config = <<>>
    /\ shuf_key = <<>>
    /\ shuf_pc = "idle"
    /\ shuf_epochs = <<>>

\* no episode is being stepped
EpiIdle ==
    /\ epi_wrapped = FALSE
    /\ epi_pool = <<>>
    /\ epi_pc = "idle"
    /\ epi_state = <<>>
    /\ epi_outs = <<>>

\* no ranks are being computed
RkIdle ==
    /\ rk_call = "none"
    /\ rk_x = <<>>
    /\ rk_pc = "idle"
    /\ rk_ret = <<>>

\* PPOWorkflow.learn is not running
PlIdle ==
    /\ pl_config = <<>>
    /\ pl_start = 0
    /\ pl_state = <<>>
    /\ pl_i = 0
    /\ pl_pc = "idle"
    /\ pl_log = <<>>
    /\ pl_saved = <<>>

\* what the actions of this part leave alone, and its state before any of them
FrameGae == <<pbtVars, buildVars, learnVars, setupVars, gradVars, ppoVars, envVars, lossVars, trainVars, shufVars, epiVars, rkVars, plVars>>
RestGaeIdle ==
    /\ PbtIdle
    /\ BuildIdle
    /\ LearnIdle
    /\ SetupIdle
    /\ GradIdle
    /\ PpoIdle
    /\ EnvIdle
    /\ LossIdle
    /\ TrainIdle
    /\ ShufIdle
    /\ EpiIdle
    /\ RkIdle
    /\ PlIdle

\* what the actions of this part leave alone, and its state before any of them
FramePbt == <<gaeVars, gradVars, ppoVars, envVars, lossVars, trainVars, shufVars, epiVars, rkVars, plVars>>
RestPbtIdle ==
    /\ GaeIdle
    /\ GradIdle
    /\ PpoIdle
    /\ EnvIdle
    /\ LossIdle
    /\ TrainIdle
    /\ ShufIdle
    /\ EpiIdle
    /\ RkIdle
    /\ PlIdle

\* what the actions of this part leave alone, and its state before any of them
FrameGrad == <<gaeVars, pbtVars, buildVars, learnVars, setupVars, ppoVars, envVars, lossVars, trainVars, shufVars, epiVars, rkVars, plVars>>
RestGradIdle ==
    /\ GaeIdle
    /\ PbtIdle
    /\ BuildIdle
    /\ LearnIdle
    /\ SetupIdle
    /\ PpoIdle
    /\ EnvIdle
    /\ LossIdle
    /\ TrainIdle
    /\ ShufIdle
    /\ EpiIdle
    /\ RkIdle
    /\ PlIdle

\* what the actions of this part leave alone, and its state before any of them
FramePpo == <<gaeVars, pbtVars, buildVars, learnVars, setupVars, gradVars, envVars, lossVars, trainVars, shufVars, epiVars, rkVars, plVars>>
RestPpoIdle ==
    /\ GaeIdle
    /\ PbtIdle
    /\ BuildIdle
    /\ LearnIdle
    /\ SetupIdle
    /\ GradIdle
    /\ EnvIdle
    /\ LossIdle
    /\ TrainIdle
    /\ ShufIdle
    /\ EpiIdle
    /\ RkIdle
    /\ PlIdle

\* what the actions of this part leave alone, and its state before any of them
FrameEnv == <<gaeVars, pbtVars, buildVars, learnVars, setupVars, gradVars, ppoVars, lossVars, trainVars, shufVars, epiVars, rkVars, plVars>>
RestEnvIdle ==
    /\ GaeIdle
    /\ PbtIdle
    /\ BuildIdle
    /\ LearnIdle
    /\ SetupIdle
    /\ GradIdle
    /\ PpoIdle
    /\ LossIdle
    /\ TrainIdle
    /\ ShufIdle
    /\ EpiIdle
    /\ RkIdle
    /\ PlIdle

\* what the actions of this part leave alone, and its state before any of them
FrameLoss == <<gaeVars, pbtVars, buildVars, learnVars, setupVars, gradVars, ppoVars, envVars, trainVars, shufVars, epiVars, rkVars, plVars>>
RestLossIdle ==
    /\ GaeIdle
    /\ PbtIdle
    /\ BuildIdle
    /\ LearnIdle
    /\ SetupIdle
    /\ GradIdle
    /\ PpoIdle
    /\ EnvIdle
    /\ TrainIdle
    /\ ShufIdle
    /\ EpiIdle
    /\ RkIdle
    /\ PlIdle

\* what the actions of this part leave alone, and its state before any of them
FrameTrain == <<gaeVars, pbtVars, buildVars, learnVars, setupVars, gradVars, ppoVars, envVars, lossVars, shufVars, epiVars, rkVars, plVars>>
RestTrainIdle ==
    /\ GaeIdle
    /\ PbtIdle
    /\ BuildIdle
    /\ LearnIdle
    /\ SetupIdle
    /\ GradIdle
    /\ PpoIdle
    /\ EnvIdle
    /\ LossIdle
    /\ ShufIdle
    /\ EpiIdle
    /\ RkIdle
    /\ PlIdle

\* what the actions of this part leave alone, and its state before any of them
FrameShuf == <<gaeVars, pbtVars, buildVars, learnVars, setupVars, gradVars, ppoVars, envVars, lossVars, trainVars, epiVars, rkVars, plVars>>
RestShufIdle ==
    /\ GaeIdle
    /\ PbtIdle
    /\ BuildIdle
    /\ LearnIdle
    /\ SetupIdle
    /\ GradIdle
    /\ PpoIdle
    /\ EnvIdle
    /\ LossIdle
    /\ TrainIdle
    /\ EpiIdle
    /\ RkIdle
    /\ PlIdle

\* what the actions of this part leave alone, and its state before any of them
FrameEpi == <<gaeVars, pbtVars, buildVars, learnVars, setupVars, gradVars, ppoVars, envVars, lossVars, trainVars, shufVars, rkVars, plVars>>
RestEpiIdle ==
    /\ GaeIdle
    /\ PbtIdle
    /\ BuildIdle
    /\ LearnIdle
    /\ SetupIdle
    /\ GradIdle
    /\ PpoIdle
    /\ EnvIdle
    /\ LossIdle
    /\ TrainIdle
    /\ ShufIdle
    /\ RkIdle
    /\ PlIdle

\* what the actions of this part leave alone, and its state before any of them
FrameRk == <<gaeVars, pbtVars, buildVars, learnVars, setupVars, gradVars, ppoVars, envVars, lossVars, trainVars, shufVars, epiVars, plVars>>
RestRkIdle ==
    /\ GaeIdle
    /\ PbtIdle
    /\ BuildIdle
    /\ LearnIdle
    /\ SetupIdle
    /\ GradIdle
    /\ PpoIdle
    /\ EnvIdle
    /\ LossIdle
    /\ TrainIdle
    /\ ShufIdle
    /\ EpiIdle
    /\ PlIdle

\* what the actions of this part leave alone, and its state before any of them
FramePl == <<gaeVars, pbtVars, buildVars, learnVars, setupVars, gradVars, ppoVars, envVars, lossVars, trainVars, shufVars, epiVars, rkVars>>
RestPlIdle ==
    /\ GaeIdle
    /\ PbtIdle
    /\ BuildIdle
    /\ LearnIdle
    /\ SetupIdle
    /\ GradIdle
    /\ PpoIdle
    /\ EnvIdle
    /\ LossIdle
    /\ TrainIdle
    /\ ShufIdle
    /\ EpiIdle
    /\ RkIdle
-----------------------------------------------------------------------------
(* Bounds of the model *)

\* longest rollout horizon T
MaxT == 3
\* largest number of parallel environments B
MaxB == 2
\* at most this many non-zero cells among dones, rewards and values
MaxNonZero == 2
\* gae_lambda and discount range over {0/Den, .., Den/Den}
Den == 2
\* largest population exploit_and_explore is called with
MaxPop == 5
\* a perturbation draw is one of 2 * PerturbGrid evenly spaced points of
\* [-perturb_factor, perturb_factor)
PerturbGrid == 1
\* most iterations of learn after the warmup iterations
MaxExploitIters == 1
\* largest population of a scheduler run
MaxSchedPop == 3
\* most devices a workflow is built for
MaxDevices == 2
\* most calls of setup on one workflow
MaxSetupCalls == 2
\* largest rollout_length, num_envs and minibatch_size of a PPO configuration
MaxRolloutLength == 2
MaxNumEnvs == 3
MaxMinibatchSize == 4

-----------------------------------------------------------------------------
(* Fixed-point arithmetic *)

\* gae_lambda and discount are numerators over Den.  rewards, values, deltas
\* and advantages are integers in units of 1/Scale; Scale holds enough powers
\* of Den that every product below divides exactly, so the arithmetic is the
\* exact arithmetic of the reals (no float rounding is modelled).
RECURSIVE Pow(_, _)
Pow(x, n) == IF n = 0 THEN 1 ELSE x * Pow(x, n - 1)

Scale == Pow(Den, 2 * MaxT + 1)

\* c * x for a coefficient c = num/den
Times(num, den, x) == (num * x) \div den

\* the sequence <<F(1), .., F(n)>>, built element by element
SeqOf(n, F(_)) ==
    LET RECURSIVE Go(_, _)
        Go(i, acc) == IF i > n THEN acc ELSE Go(i + 1, Append(acc, F(i)))
    IN  Go(1, <<>>)

\* values[1:] and values[:-1]
DropFirst(x) == SubSeq(x, 2, Len(x))
DropLast(x) == SubSeq(x, 1, Len(x) - 1)

\* jnp.zeros_like of one row
ZerosLike(row) == SeqOf(Len(row), LAMBDA b : 0)

-----------------------------------------------------------------------------
(* compute_gae *)

\* the width B of an array [T, B]
Width(x) == IF Len(x) = 0 THEN 0 ELSE Len(x[1])

\* chex.assert_shape(values, (rewards_shape[0]+1, *rewards_shape[1:]))
AssertShapeAtLeast(vals, rews) ==
    /\ Len(vals) >= Len(rews) + 1
    /\ \A t \in 1..Len(vals) : Len(vals[t]) = Width(rews)

assert_shape(vals, rews) ==
    /\ Len(vals) = Len(rews) + 1
    /\ \A t \in 1..Len(vals) : Len(vals[t]) = Width(rews)

\* deltas = rewards + discount * (1 - dones) * values[1:] - values[:-1]
DeltasNoDoneMask(ds, rews, vals, disc) ==
    LET v1 == DropFirst(vals)
        v0 == DropLast(vals)
    IN  SeqOf(Len(rews), LAMBDA t : SeqOf(Width(rews), LAMBDA b :
            rews[t][b] + Times(disc, Den, v1[t][b]) - v0[t][b]))

Deltas(ds, rews, vals, disc) ==
    LET v1 == DropFirst(vals)
        v0 == DropLast(vals)
    IN  SeqOf(Len(rews), LAMBDA t : SeqOf(Width(rews), LAMBDA b :
            rews[t][b] + Times(disc * (1 - ds[t][b]), Den, v1[t][b]) - v0[t][b]))

\* the scanned factors discount*gae_lambda*(1-dones), numerators over Den*Den
Factors(ds, lam, disc) ==
    SeqOf(Len(ds), LAMBDA t : SeqOf(Width(ds), LAMBDA b :
        disc * lam * (1 - ds[t][b])))

\* _compute_gae(gae_t_plus_1, x_t): gae_t = delta_t + factor_t * gae_t_plus_1,
\* the new carry and the output of the step
compute_gae_step(gae_t_plus_1, delta_t, factor_t) ==
    SeqOf(Len(delta_t), LAMBDA b :
        delta_t[b] + Times(factor_t[b], Den * Den, gae_t_plus_1[b]))

\* jax.lax.scan(_compute_gae, last_gae, (deltas, factors), reverse=True):
\* the steps t, t-1, .., 1 with carry gae_t_plus_1; acc holds the outputs
\* of the steps already taken, in time order
ScanForward(deltas, factors, t, gae_t_plus_1, acc) ==
    LET RECURSIVE Fwd(_, _, _)
        Fwd(i, carry, out) ==
            IF i > Len(deltas) THEN out
            ELSE LET g == compute_gae_step(carry, deltas[i], factors[i])
                 IN  Fwd(i + 1, g, Append(out, g))
    IN  Fwd(1, gae_t_plus_1, acc)

RECURSIVE ScanReverse(_, _, _, _, _)
ScanReverse(deltas, factors, t, gae_t_plus_1, acc) ==
    IF t = 0 THEN acc
    ELSE LET gae_t == compute_gae_step(gae_t_plus_1, deltas[t], factors[t])
         IN  ScanReverse(deltas, factors, t - 1, gae_t, <<gae_t>> \o acc)

\* the advantages of compute_gae
GaeAdvantages(ds, rews, vals, lam, disc) ==
    LET deltas == Deltas(ds, rews, vals, disc)
        last_gae == ZerosLike(vals[1])
    IN  ScanReverse(deltas, Factors(ds, lam, disc), Len(deltas), last_gae, <<>>)

\* lambda_retruns = advantages + values[:-1]
LambdaReturnsNextValue(advs, vals) ==
    LET v1 == DropFirst(vals)
    IN  SeqOf(Len(advs), LAMBDA t : SeqOf(Width(advs), LAMBDA b :
            advs[t][b] + v1[t][b]))

LambdaReturns(advs, vals) ==
    LET v0 == DropLast(vals)
    IN  SeqOf(Len(advs), LAMBDA t : SeqOf(Width(advs), LAMBDA b :
            advs[t][b] + v0[t][b]))

-----------------------------------------------------------------------------
(* The inputs compute_gae is called with *)

\* the subsets of S with at most k members
RECURSIVE SubsetsUpTo(_, _)
SubsetsUpTo(S, k) ==
    IF k = 0 THEN {{}}
    ELSE LET smaller == SubsetsUpTo(S, k - 1)
         IN  smaller \cup {A \cup {x} : A \in smaller, x \in S}

\* the cells of dones [T, B], rewards [T, B] and values [L, B]
Cells(T, B, L) ==
    ({"dones", "rewards"} \X (1..T) \X (1..B)) \cup ({"values"} \X (1..L) \X (1..B))

\* the array [n, B] that is `one` on the cells of nz named what and 0 elsewhere
ArrayOf(what, n, B, nz, one) ==
    [t \in 1..n |-> [b \in 1..B |-> IF <<what, t, b>> \in nz THEN one ELSE 0]]

\* the array [n, B] with x in every cell
Full(n, B, x) == [t \in 1..n |-> [b \in 1..B |-> x]]

\* the arguments <<dones, rewards, values>> of shapes [T, B], [T, B], [L, B]:
\* at most MaxNonZero cells that are not 0, or each array the same in all cells;
\* rewards and values are 0 or 1
GaeInputs(T, B, L) ==
    {<<ArrayOf("dones", T, B, nz, 1), ArrayOf("rewards", T, B, nz, Scale),
       ArrayOf("values", L, B, nz, Scale)>> :
        nz \in SubsetsUpTo(Cells(T, B, L), MaxNonZero)}
    \cup
    {<<Full(T, B, d), Full(T, B, r * Scale), Full(L, B, v * Scale)>> :
        d \in {0, 1}, r \in {0, 1}, v \in {0, 1}}

\* a call of compute_gae: any shape [T, B], a values array of T, T+1 or T+2
\* rows, any gae_lambda and discount in {0/Den, .., Den/Den}
GaeInit ==
    \E T \in 1..MaxT, B \in 1..MaxB :
      \E L \in {T, T + 1, T + 2} :
        \E in \in GaeInputs(T, B, L) :
            /\ dones = in[1]
            /\ rewards = in[2]
            /\ values = in[3]
            /\ L # T + 1 => in[1] = Full(T, B, 0) /\ in[2] = Full(T, B, 0)
            /\ gae_lambda \in 0..Den
            /\ discount \in 0..Den
            /\ gae_pc = "call"
            /\ lambda_retruns = <<>>
            /\ advantages = <<>>
            /\ RestGaeIdle

\* compute_gae on arguments of the right shape
ComputeGae ==
    /\ gae_pc = "call"
    /\ assert_shape(values, rewards)
    /\ advantages' = GaeAdvantages(dones, rewards, values, gae_lambda, discount)
    /\ lambda_retruns' = LambdaReturns(advantages', values)
    /\ gae_pc' = "done"
    /\ UNCHANGED <<dones, rewards, values, gae_lambda, discount>>
    /\ UNCHANGED FrameGae

\* compute_gae on a values array of the wrong shape: chex raises
ComputeGaeShapeError ==
    /\ gae_pc = "call"
    /\ ~assert_shape(values, rewards)
    /\ gae_pc' = "error"
    /\ UNCHANGED <<dones, rewards, values, gae_lambda, discount,
                   lambda_retruns, advantages>>
    /\ UNCHANGED FrameGae

GaeNext == ComputeGae \/ ComputeGaeShapeError

SpecGAE == GaeInit /\ [][GaeNext]_vars

-----------------------------------------------------------------------------
(* Properties of compute_gae, checked under SpecGAE *)

GaeT == Len(rewards)
GaeB == Width(rewards)

\* the reference recursion, one environment column at a time
RefDelta(t, b) ==
    rewards[t][b] + Times(discount * (1 - dones[t][b]), Den, values[t + 1][b])
                  - values[t][b]

\* <<advantage[t], .., advantage[T]>> of column b, by the recursion
\* advantage[T+1] = 0, advantage[t] = delta[t] + factor[t] * advantage[t+1]
RECURSIVE RefAdvantages(_, _)
RefAdvantages(t, b) ==
    IF t = GaeT + 1 THEN <<>>
    ELSE LET later == RefAdvantages(t + 1, b)
             next == IF later = <<>> THEN 0 ELSE later[1]
         IN  <<RefDelta(t, b)
               + Times(discount * gae_lambda * (1 - dones[t][b]), Den * Den, next)>>
             \o later

\* column b of an array [n, B], as a sequence and as an array [n, 1]
Col(x, b) == [t \in 1..Len(x) |-> x[t][b]]
Column(x, b) == [t \in 1..Len(x) |-> <<x[t][b]>>]

\* C1: compute_gae returns advantages [T, B] and targets [T, B] that equal the
\* reference backward recursion (advantage[T] = 0, advantage[t] = delta[t] +
\* discount*gae_lambda*(1-done[t])*advantage[t+1], target = advantage + value),
\* and column b of the result is the result for column b of the arguments alone.
C1_GaeIsBackwardRecursion ==
    gae_pc = "done" =>
        /\ Len(advantages) = GaeT /\ Len(lambda_retruns) = GaeT
        /\ \A t \in 1..GaeT :
              Len(advantages[t]) = GaeB /\ Len(lambda_retruns[t]) = GaeB
        /\ \A b \in 1..GaeB :
              LET ref == RefAdvantages(1, b)
              IN  /\ Col(advantages, b) = ref
                  /\ \A t \in 1..GaeT : lambda_retruns[t][b] = ref[t] + values[t][b]
                  /\ Column(advantages, b) =
                        GaeAdvantages(Column(dones, b), Column(rewards, b),
                                      Column(values, b), gae_lambda, discount)

\* a completed call on two columns that differ, with a done flag set, a
\* decay factor that is not 0 and an advantage carried back from a later step
C1_Witness ==
    /\ gae_pc = "done"
    /\ GaeT >= 2 /\ GaeB = 2
    /\ gae_lambda > 0 /\ discount > 0
    /\ \E t \in 1..GaeT : dones[t][1] = 1
    /\ Column(advantages, 1) # Column(advantages, 2)
    /\ \E t \in 1..(GaeT - 1) :
          /\ dones[t][2] = 0
          /\ advantages[t + 1][2] # 0
          /\ advantages[t][2] # RefDelta(t, 2)

\* the sum of rewards[t..T] of column b
RECURSIVE RewardSum(_, _)
RewardSum(t, b) == IF t > GaeT THEN 0 ELSE rewards[t][b] + RewardSum(t + 1, b)

AllZero(x) == \A t \in 1..Len(x) : \A b \in 1..Len(x[t]) : x[t][b] = 0

C3_DoneCutsBootstrap ==
    gae_pc = "done" =>
        \A t \in 1..GaeT : \A b \in 1..GaeB :
            dones[t][b] = 1 => advantages[t][b] = rewards[t][b] - values[t][b]

\* a done flag before the last step, followed by a value and an advantage
\* that are not 0, with gae_lambda * discount > 0
C3_Witness ==
    /\ gae_pc = "done"
    /\ gae_lambda > 0 /\ discount > 0
    /\ \E t \in 1..(GaeT - 1) : \E b \in 1..GaeB :
          /\ dones[t][b] = 1
          /\ values[t + 1][b] # 0
          /\ advantages[t + 1][b] # 0

\* C4: a values array whose leading length is not T + 1 makes compute_gae
\* fail: the call ends in an error and returns no advantage and no target.
C4_WrongShapeFails ==
    /\ (gae_pc # "call" /\ Len(values) # GaeT + 1) =>
          gae_pc = "error" /\ advantages = <<>> /\ lambda_retruns = <<>>
    /\ gae_pc = "done" => Len(advantages) = GaeT /\ Len(lambda_retruns) = GaeT

\* a call with values of length T has failed
C4_Witness ==
    /\ gae_pc = "error"
    /\ Len(values) = GaeT
    /\ ~AllZero(values)

-----------------------------------------------------------------------------
(* Random keys and numbers of the PBT scheduler *)

\* jax.random.split(key, num)[i]: keys are paths of splits
Split(k, num, i) == Append(k, <<num, i>>)

\* A learning rate is an integer in units of 1/LrUnit of the search space's
\* step; LrUnit holds enough factors that every perturbation of a run divides
\* exactly.  perturb_factor is 0 or 1/2.
LrUnit == Pow(2 * PerturbGrid, MaxExploitIters)

PerturbFactors == {<<0, 1>>, <<1, 2>>}

\* the draws jax.random.uniform(key, minval=-pf, maxval=pf) can return, as
\* numerators k of u = pf * k / PerturbGrid
UniformDraws(pf) ==
    IF pf[1] = 0 THEN {0} ELSE (-PerturbGrid)..(PerturbGrid - 1)

\* Python's round(n / d) for n/d >= 0: to the nearest integer, a tie to the
\* even one
round(n, d) ==
    LET q == n \div d
        r == n % d
    IN  IF 2 * r < d THEN q
        ELSE IF 2 * r > d THEN q + 1
        ELSE IF q % 2 = 0 THEN q ELSE q + 1

\* math.ceil(a / b)
FloorDiv(a, b) == a \div b

ceil(a, b) == (a + b - 1) \div b

-----------------------------------------------------------------------------
(* The target workflow: one member's TrainingState *)

\* The parameters, the environment state and the optimizer's momentum are
\* opaque: each is the record of what it was computed from.

\* the target workflow's own configuration
TargetConfig ==
    [rollout_length |-> 1, num_envs |-> 2, minibatch_size |-> 2,
     reuse_rollout_epochs |-> 1, normalize_obs |-> TRUE]

\* WorkflowMetric(): the counters start at zero
WorkflowMetric == [sampled_episodes |-> 0, sampled_timesteps |-> 0, iterations |-> 0]

\* optax.inject_hyperparams(optax.adam)(learning_rate=lr).init(params)
OptInit(lr) ==
    [count |-> 0, hyperparams |-> [learning_rate |-> lr],
     hyperparams_states |-> <<>>, inner_state |-> <<>>]

\* optimizer.update(grads, opt_state): the parameter update and the new
\* optimizer state
OptimizerUpdate(grads, opt_state) ==
    <<<<"update", grads, opt_state.hyperparams.learning_rate, opt_state.inner_state>>,
      [opt_state EXCEPT
          !.count = opt_state.count + 1,
          !.inner_state = Append(opt_state.inner_state, grads)]>>

\* optax.apply_updates(params, updates)
ApplyUpdates(params, updates) == <<"apply_updates", params, updates>>

\* loss_and_pgrad_fn(agent_state.params, agent_state, sample_batch, key):
\* the value (loss and its auxiliary dictionary) and the gradients
LossAndGrad(params, agent_state, sample_batch, k) ==
    <<<<"loss", params, sample_batch, k>>, <<"grads", params, sample_batch, k>>>>

\* the function f returned by agent_gradient_update(loss_fn, optimizer, ..):
\* f(opt_state, agent_state, sample_batch, key).  The agent state with the
\* new params is built and dropped; the one passed in is returned.
agent_gradient_update(opt_state, agent_state, sample_batch, k) ==
    LET vg == LossAndGrad(agent_state.params, agent_state, sample_batch, k)
        upd == OptimizerUpdate(vg[2], opt_state)
        params == ApplyUpdates(agent_state.params, upd[1])
        replaced == [agent_state EXCEPT !.params = params]
    IN  <<vg[1], agent_state, upd[2]>>

\* agent.init and optimizer.init of _setup_agent_and_optimizer, env.reset
AgentInit(k) == [params |-> <<k>>, obs_preprocessor_state |-> <<>>]

\* OnPolicyWorkflow.setup(key)
WorkflowSetup(k, cfg) ==
    [key |-> Split(k, 3, 0),
     metrics |-> WorkflowMetric,
     agent_state |-> AgentInit(Split(k, 3, 1)),
     env_state |-> <<Split(k, 3, 2)>>,
     opt_state |-> OptInit(cfg.lr_low)]

\* num_minibatches of PPOWorkflow.step
NumMinibatches(rollout_length, num_envs, minibatch_size) ==
    (rollout_length * num_envs) \div minibatch_size

\* jax.lax.scan(minibatch_step, (opt_state, agent_state, key), minibatches):
\* the carry after the minibatches m..n of the epoch shuffled with perm_key
RECURSIVE MinibatchScan(_, _, _, _, _)
MinibatchScan(carry, trajectory, perm_key, m, n) ==
    IF m > n THEN carry
    ELSE LET learn_key == Split(carry[3], 2, 1)
             res == agent_gradient_update(carry[1], carry[2],
                                          <<trajectory, perm_key, m>>, learn_key)
         IN  MinibatchScan(<<res[3], res[2], Split(carry[3], 2, 0)>>,
                           trajectory, perm_key, m + 1, n)

\* jax.lax.scan(epoch_step, (opt_state, agent_state, learn_key), None,
\* length=reuse_rollout_epochs): the carry after e more epochs
RECURSIVE EpochScan(_, _, _)
EpochScan(carry, trajectory, e) ==
    IF e = 0 THEN carry
    ELSE LET perm_key == Split(carry[3], 2, 0)
             learn_key == Split(carry[3], 2, 1)
         IN  EpochScan(
                MinibatchScan(<<carry[1], carry[2], learn_key>>, trajectory, perm_key, 1,
                    NumMinibatches(TargetConfig.rollout_length, TargetConfig.num_envs,
                                   TargetConfig.minibatch_size)),
                trajectory, e - 1)

\* PPOWorkflow.step(state): a rollout, the observation statistics, then
\* reuse_rollout_epochs epochs of num_minibatches gradient updates, then the
\* counters (uint32; the runs modelled stay far below 2^32)
WorkflowStep(wf) ==
    LET rollout_key == Split(wf.key, 3, 1)
        learn_key == Split(wf.key, 3, 2)
        trajectory == <<"trajectory", rollout_key>>
        agent_state ==
            IF TargetConfig.normalize_obs
            THEN [wf.agent_state EXCEPT
                    !.obs_preprocessor_state =
                        Append(wf.agent_state.obs_preprocessor_state, trajectory)]
            ELSE wf.agent_state
        carry == EpochScan(<<wf.opt_state, agent_state, learn_key>>, trajectory,
                           TargetConfig.reuse_rollout_epochs)
    IN  [key |-> Split(wf.key, 3, 0),
         metrics |->
            [wf.metrics EXCEPT
                !.sampled_timesteps =
                    wf.metrics.sampled_timesteps
                        + TargetConfig.rollout_length * TargetConfig.num_envs,
                !.iterations = wf.metrics.iterations + 1],
         agent_state |-> carry[2],
         env_state |-> Append(wf.env_state, rollout_key),
         opt_state |-> carry[1]]

\* OnPolicyWorkflow.evaluate(state): only the key advances
WorkflowEvaluate(wf) == [wf EXCEPT !.key = Split(wf.key, 2, 0)]

\* _train_steps(wf_state): jax.lax.scan of workflow.step, length n
RECURSIVE train_steps(_, _)
train_steps(wf, n) == IF n = 0 THEN wf ELSE train_steps(WorkflowStep(wf), n - 1)

-----------------------------------------------------------------------------
(* apply_hyperparams_to_workflow_state and exploit_and_explore *)

\* deepcopy_InjectStatefulHyperparamsState(state)
ReinitInjectStatefulHyperparamsState(opt_state) ==
    OptInit(opt_state.hyperparams.learning_rate)

deepcopy_InjectStatefulHyperparamsState(opt_state) ==
    [count |-> opt_state.count,
     hyperparams |-> opt_state.hyperparams,
     hyperparams_states |-> opt_state.hyperparams_states,
     inner_state |-> opt_state.inner_state]

\* the workflow state as it was: the learning rate is not injected
ApplyHyperparamsNowhere(hyperparams, workflow_state) == workflow_state

\* apply_hyperparams_to_workflow_state(hyperparams, workflow_state)
apply_hyperparams_to_workflow_state(hyperparams, workflow_state) ==
    LET opt_state == deepcopy_InjectStatefulHyperparamsState(workflow_state.opt_state)
    IN  [workflow_state EXCEPT
            !.opt_state = [opt_state EXCEPT
                !.hyperparams = [opt_state.hyperparams EXCEPT
                    !.learning_rate = hyperparams.lr]]]

bottoms_num(cfg) == round(cfg.pop_size * cfg.bottom_ratio[1], cfg.bottom_ratio[2])
tops_num(cfg) == round(cfg.pop_size * cfg.top_ratio[1], cfg.top_ratio[2])

\* jnp.argsort(x): the indices in ascending order of value, equal values in
\* index order
argsort(x) ==
    LET n == Len(x)
        Before(i, j) == x[i] < x[j] \/ (x[i] = x[j] /\ i < j)
        Rank(i) == Cardinality({j \in 1..n : Before(j, i)}) + 1
    IN  [r \in 1..n |-> CHOOSE i \in 1..n : Rank(i) = r]

\* indices[:bottoms_num]
bottoms_indices(cfg, returns) ==
    LET indices == argsort(returns)
        b == bottoms_num(cfg)
    IN  SubSeq(indices, 1, IF b > Len(indices) THEN Len(indices) ELSE b)

\* indices[-tops_num:]; -0 is 0, so tops_num = 0 slices the whole array
tops_indices(cfg, returns) ==
    LET indices == argsort(returns)
        n == Len(indices)
        t == tops_num(cfg)
    IN  IF t = 0 \/ t >= n THEN indices ELSE SubSeq(indices, n - t + 1, n)

\* _read(indices, pop) and _write(indices, pop, new) on one array
Read(indices, x) == [j \in 1..Len(indices) |-> x[indices[j]]]

Write(indices, x, new) ==
    [i \in 1..Len(x) |->
        IF \E j \in 1..Len(indices) : indices[j] = i
        THEN new[CHOOSE j \in 1..Len(indices) : indices[j] = i]
        ELSE x[i]]

\* top[hp_name] * (1 + u), u = pf * k / PerturbGrid
Perturb(lr, pf, k) ==
    (lr * (pf[2] * PerturbGrid + pf[1] * k)) \div (pf[2] * PerturbGrid)

\* _exploit_and_explore_fn(key, top, top_wf_state), k the draw made from key
ExploitAndExploreFn(cfg, k, top, top_wf_state) ==
    LET new == [lr |-> Perturb(top.lr, cfg.perturb_factor, k)]
    IN  <<new, apply_hyperparams_to_workflow_state(new, top_wf_state)>>

\* the locals exploit_and_explore computes before it draws anything
EEIndices(cfg, returns) ==
    [bottoms_num |-> bottoms_num(cfg),
     tops_num |-> tops_num(cfg),
     bottoms_indices |-> bottoms_indices(cfg, returns),
     tops_indices |-> tops_indices(cfg, returns)]

\* exploit_and_explore(config, key, pop_episode_returns, pop, pop_workflow_state),
\* loc its locals above: tops_choice_indices is what
\* jax.random.choice(exploit_key, tops_indices, (len(bottoms_indices),))
\* returned and draws[j] what the j-th explore key gave; the result is the
\* pair <<pop, pop_workflow_state>>
exploit_and_explore(cfg, loc, p, wfs, tops_choice_indices, draws) ==
    LET bottoms == loc.bottoms_indices
        tops_lr == Read(tops_choice_indices, p.lr)
        tops_wf == Read(tops_choice_indices, wfs)
        res == [j \in 1..Len(bottoms) |->
                    ExploitAndExploreFn(cfg, draws[j], [lr |-> tops_lr[j]], tops_wf[j])]
        new_bottoms == [j \in 1..Len(bottoms) |-> res[j][1].lr]
        new_bottoms_wf_state == [j \in 1..Len(bottoms) |-> res[j][2]]
    IN  <<[lr |-> Write(bottoms, p.lr, new_bottoms)],
          Write(bottoms, wfs, new_bottoms_wf_state)>>

\* one key for all the calls of _exploit_and_explore_fn
ExploreKeysShared(key, n) == [j \in 1..n |-> Split(key, 3, 2)]

\* exploit_and_explore: key, exploit_key, explore_key = split(key, 3), then
\* jax.random.split(explore_key, len(bottoms_indices)), the keys the vmapped
\* _exploit_and_explore_fn is called with
ExploreKeys(key, n) == [j \in 1..n |-> Split(Split(key, 3, 2), n, j - 1)]

\* what jax.random.uniform gives for each of the keys: a function of the key
KeyDraws(keys, pf) == [{keys[j] : j \in 1..Len(keys)} -> UniformDraws(pf)]

\* the sequences of length n over the members of the sequence s
Choices(n, s) == [1..n -> {s[j] : j \in 1..Len(s)}]

-----------------------------------------------------------------------------
(* exploit_and_explore called on a population: SpecEE *)

\* the pairs <<bottom_ratio, top_ratio>> of a configuration, each ratio a
\* fraction <<numerator, denominator>>; every pair sums to at most 1
RatioPairs ==
    {<< <<0, 1>>, <<0, 1>> >>, << <<0, 1>>, <<1, 5>> >>,
     << <<1, 5>>, <<0, 1>> >>, << <<2, 5>>, <<0, 1>> >>,
     << <<1, 5>>, <<1, 5>> >>, << <<2, 5>>, <<1, 5>> >>,
     << <<1, 5>>, <<1, 2>> >>, << <<1, 2>>, <<1, 2>> >>}

\* the mean episode returns an evaluation can give
EpisodeReturns == {1, 9}

\* PBTWorkflow.setup's population for the learning rates lrs: each member is
\* set up from its own key and given its learning rate
SetupPopulation(k, cfg, lrs) ==
    LET workflow_key == Split(k, 3, 1)
    IN  [i \in 1..cfg.pop_size |->
            apply_hyperparams_to_workflow_state(
                [lr |-> lrs[i]],
                WorkflowSetup(Split(workflow_key, cfg.pop_size, i - 1), cfg))]

\* the learning rates low, low + 1, .. of the search space, one per member
SpreadLr(cfg) == [i \in 1..cfg.pop_size |-> cfg.lr_low + (i - 1) * LrUnit]

EEConfigs ==
    {[pop_size |-> P, bottom_ratio |-> r[1], top_ratio |-> r[2],
      perturb_factor |-> pf, lr_low |-> LrUnit, lr_high |-> (P + 1) * LrUnit,
      warmup_steps |-> 0, per_iter_workflow_steps |-> 1, num_iters |-> 1] :
        P \in 1..MaxPop, r \in RatioPairs, pf \in PerturbFactors}

\* the fitness vectors of an evaluation, and the one of the specification's
\* example
EEReturns(P) ==
    [1..P -> EpisodeReturns] \cup (IF P = 5 THEN {<<5, 1, 9, 3, 7>>} ELSE {})

\* a population that was set up, trained one step and evaluated, about to be
\* passed to exploit_and_explore
EEInit ==
    /\ config \in EEConfigs
    /\ pop = [lr |-> SpreadLr(config)]
    /\ pop_workflow_state =
          [i \in 1..config.pop_size |->
              WorkflowEvaluate(WorkflowStep(
                  SetupPopulation(<<0>>, config, SpreadLr(config))[i]))]
    /\ pop_episode_returns \in EEReturns(config.pop_size)
    /\ state = <<>> /\ branch = "none" /\ learn_i = 0 /\ ee = <<>>
    /\ pbt_pc = "exploit_and_explore"
    /\ BuildIdle /\ LearnIdle /\ SetupIdle
    /\ RestPbtIdle

\* one call of exploit_and_explore
ExploitAndExploreCall ==
    /\ pbt_pc = "exploit_and_explore"
    /\ \E loc \in {EEIndices(config, pop_episode_returns)} :
       \E choice \in Choices(Len(loc.bottoms_indices), loc.tops_indices) :
       \E keys \in {ExploreKeys(<<0>>, Len(loc.bottoms_indices))} :
       \E uniform \in KeyDraws(keys, config.perturb_factor) :
       \E draws \in {[j \in 1..Len(keys) |-> uniform[keys[j]]]} :
       \E res \in {exploit_and_explore(config, loc, pop, pop_workflow_state,
                                       choice, draws)} :
            /\ pop' = res[1]
            /\ pop_workflow_state' = res[2]
            /\ ee' = [loc |-> loc, tops_choice_indices |-> choice,
                      explore_keys |-> keys,
                      draws |-> draws, pop |-> pop,
                      pop_workflow_state |-> pop_workflow_state]
    /\ pbt_pc' = "returned"
    /\ UNCHANGED <<config, state, pop_episode_returns, branch, learn_i>>
    /\ UNCHANGED <<buildVars, learnVars, setupVars>>
    /\ UNCHANGED FramePbt

SpecEE == EEInit /\ [][ExploitAndExploreCall]_vars

-----------------------------------------------------------------------------
(* PBTWorkflow.setup, step and learn: Spec *)

\* the pairs <<warmup_steps, per_iter_workflow_steps>> of a configuration
WarmupPairs == {<<0, 1>>, <<3, 2>>, <<10, 2>>}

\* the ratio pairs of a scheduler run
SchedRatioPairs == {<< <<1, 5>>, <<1, 5>> >>, << <<1, 3>>, <<1, 3>> >>}

\* learn runs through the warmup iterations and MaxExploitIters more
SchedConfigs ==
    {[pop_size |-> P, bottom_ratio |-> r[1], top_ratio |-> r[2],
      perturb_factor |-> pf, lr_low |-> LrUnit, lr_high |-> (P + 1) * LrUnit,
      warmup_steps |-> w[1], per_iter_workflow_steps |-> w[2],
      num_iters |-> ceil(w[1], w[2]) + MaxExploitIters] :
        P \in 0..MaxSchedPop, r \in SchedRatioPairs, pf \in PerturbFactors,
        w \in WarmupPairs}

\* draws of jax.random.uniform(pop_key, (pop_size,), minval=low, maxval=high):
\* every member at low, or the members spread over [low, high)
LrVectors(cfg) == {[i \in 1..cfg.pop_size |-> cfg.lr_low], SpreadLr(cfg)}

\* PBTWorkflow.setup(key), lrs the learning rates drawn from pop_key
PBTSetup(k, cfg, lrs) ==
    [key |-> Split(k, 3, 0),
     metrics |-> WorkflowMetric,
     pop_workflow_state |-> SetupPopulation(k, cfg, lrs),
     pop |-> [lr |-> lrs]]

\* jnp.sum over the members
RECURSIVE SumTo(_, _)
SumTo(x, n) == IF n = 0 THEN 0 ELSE x[n] + SumTo(x, n - 1)

\* the condition of step's jax.lax.cond: true selects _dummy_fn
InWarmup(cfg, st) ==
    st.metrics.iterations + 1 <= ceil(cfg.warmup_steps, cfg.per_iter_workflow_steps)

\* a step that adds the members' counters to the scheduler's own
StepReturnAccumulate(st, p, wfs) ==
    [key |-> Split(st.key, 2, 0),
     metrics |-> [st.metrics EXCEPT
        !.sampled_timesteps = st.metrics.sampled_timesteps +
            SumTo([i \in 1..Len(wfs) |-> wfs[i].metrics.sampled_timesteps], Len(wfs)),
        !.iterations = st.metrics.iterations + 1],
     pop_workflow_state |-> wfs,
     pop |-> p]

\* the State step returns
StepReturn(st, p, wfs) ==
    [key |-> Split(st.key, 2, 0),
     metrics |-> [st.metrics EXCEPT
        !.sampled_timesteps =
            SumTo([i \in 1..Len(wfs) |-> wfs[i].metrics.sampled_timesteps], Len(wfs)),
        !.iterations = st.metrics.iterations + 1],
     pop_workflow_state |-> wfs,
     pop |-> p]

\* the optimizer PPOWorkflow._build_from_config gave the target workflow,
\* and the one setup assigns to workflow.optimizer
TargetOptimizer == [kind |-> "adam"]

SetupOptimizer(cfg) == [kind |-> "inject_hyperparams", learning_rate |-> cfg.lr_low]

\* the optimizer workflow.setup initialises the members with: setup assigns
\* workflow.optimizer before it calls workflow.setup
OptimizerUsedStale(current, assigned) == current

OptimizerUsed(current, assigned) == assigned

\* what setup(key) returns when the members are initialised with opt:
\* apply_hyperparams_to_workflow_state asserts an InjectStatefulHyperparamsState
SetupResult(opt, k, cfg, lrs) ==
    IF opt.kind = "inject_hyperparams" THEN PBTSetup(k, cfg, lrs)
    ELSE [raised |-> "AssertionError"]

\* _rescale_config(config, devices): the new pop_size, and whether the
\* warning is logged
RescalePopSizeUp(pop_size, num_devices) ==
    ((pop_size + num_devices - 1) \div num_devices) * num_devices

RescalePopSize(pop_size, num_devices) == (pop_size \div num_devices) * num_devices

RescaleWarns(pop_size, num_devices) == pop_size % num_devices # 0

\* a configuration and the devices build_from_config is called with
Init ==
    /\ build_config \in SchedConfigs
    /\ devices \in 1..MaxDevices
    /\ logger = <<>>
    /\ config = <<>>
    /\ state = <<>> /\ pop = <<>> /\ pop_workflow_state = <<>>
    /\ pop_episode_returns = <<>> /\ branch = "none" /\ learn_i = 0
    /\ ee = <<>>
    /\ pbt_pc = "build"
    /\ optimizer = TargetOptimizer /\ prng = <<>> /\ setups = <<>>
    /\ LearnIdle
    /\ RestPbtIdle

\* recorder.write(data, step)
RecorderWrite(rec, kind, data, step) ==
    [writes |-> Append(IF rec = <<>> THEN <<>> ELSE rec.writes,
                       [kind |-> kind, step |-> step]),
     last |-> data]

\* a manager that keeps the last step only
CheckpointSaveLastOnly(mgr, step, st) == [steps |-> <<step>>, latest |-> st]

\* checkpoint_manager.save(step, args=StandardSave(state))
CheckpointSave(mgr, step, st) ==
    [steps |-> Append(IF mgr = <<>> THEN <<>> ELSE mgr.steps, step),
     latest |-> st]

\* build_from_config(config, devices): a copy of the configuration is
\* rescaled and the workflow is built from it
BuildFromConfig ==
    /\ pbt_pc = "build"
    /\ config' = [build_config EXCEPT
                    !.pop_size = RescalePopSize(build_config.pop_size, devices)]
    /\ logger' = IF RescaleWarns(build_config.pop_size, devices)
                 THEN Append(logger, "warning") ELSE logger
    /\ pbt_pc' = "built"
    /\ UNCHANGED <<state, pop, pop_workflow_state, pop_episode_returns,
                   branch, learn_i, ee>>
    /\ UNCHANGED <<build_config, devices, learnVars, setupVars>>
    /\ UNCHANGED FramePbt

\* state = workflow.setup(key)
Setup ==
    /\ pbt_pc = "built"
    /\ \E lrs \in LrVectors(config) :
          state' = SetupResult(OptimizerUsed(optimizer, SetupOptimizer(config)),
                               <<0>>, config, lrs)
    /\ optimizer' = SetupOptimizer(config)
    /\ pbt_pc' = "learn"
    /\ UNCHANGED <<config, pop, pop_workflow_state, pop_episode_returns,
                   branch, learn_i, ee>>
    /\ UNCHANGED <<buildVars, learnVars, prng, setups>>
    /\ UNCHANGED FramePbt

\* the returns an evaluation of P members gives in a scheduler run: at most
\* one member at the high return
EvalReturns(P) ==
    {v \in [1..P -> EpisodeReturns] : Cardinality({i \in 1..P : v[i] = 9}) <= 1}

\* an eval_fn applied to the population step was called with
EvalInputStale(before, trained) == before

\* step: eval_fn(pop_workflow_state), the name pop_workflow_state bound to
\* what train_steps_fn returned
EvalInput(before, trained) == trained

\* step, "===== step ======": every member trains per_iter_workflow_steps
\* steps.  (The call as written hands train_steps_fn the function
\* _train_steps before pop_workflow_state; the model applies train_steps_fn to
\* pop_workflow_state, the data the rest of step uses.)
TrainSteps ==
    /\ pbt_pc = "learn"
    /\ learn_i < config.num_iters
    /\ pop' = state.pop
    /\ pop_workflow_state' =
          [i \in 1..config.pop_size |->
              train_steps(state.pop_workflow_state[i], config.per_iter_workflow_steps)]
    /\ pbt_pc' = "eval"
    /\ UNCHANGED <<config, state, pop_episode_returns, branch, learn_i, ee>>
    /\ UNCHANGED <<buildVars, learnVars, setupVars>>
    /\ UNCHANGED FramePbt

\* step, "===== eval ======": every member is evaluated; the returns are
\* whatever the episodes gave
Evaluate ==
    /\ pbt_pc = "eval"
    /\ pop_episode_returns' \in EvalReturns(config.pop_size)
    /\ pop_workflow_state' =
          [i \in 1..config.pop_size |->
              WorkflowEvaluate(EvalInput(state.pop_workflow_state,
                                        pop_workflow_state)[i])]
    /\ pbt_pc' = "cond"
    /\ UNCHANGED <<config, state, pop, branch, learn_i, ee>>
    /\ UNCHANGED <<buildVars, learnVars, setupVars>>
    /\ UNCHANGED FramePbt

\* step, "===== warmup or exploit & explore ======", the _dummy_fn branch, and
\* the metrics and the State returned to learn
Warmup ==
    /\ pbt_pc = "cond"
    /\ InWarmup(config, state)
    /\ branch' = "_dummy_fn"
    /\ state' = StepReturn(state, pop, pop_workflow_state)
    /\ pbt_pc' = "record"
    /\ UNCHANGED <<config, pop, pop_workflow_state, pop_episode_returns, learn_i, ee>>
    /\ UNCHANGED <<buildVars, learnVars, setupVars>>
    /\ UNCHANGED FramePbt

\* the same with the _exploit_and_explore branch
ExploitAndExplore ==
    /\ pbt_pc = "cond"
    /\ ~InWarmup(config, state)
    /\ branch' = "_exploit_and_explore"
    /\ \E loc \in {EEIndices(config, pop_episode_returns)} :
       \E choice \in Choices(Len(loc.bottoms_indices), loc.tops_indices) :
       \E keys \in {ExploreKeys(Split(state.key, 2, 1), Len(loc.bottoms_indices))} :
       \E uniform \in KeyDraws(keys, config.perturb_factor) :
       \E draws \in {[j \in 1..Len(keys) |-> uniform[keys[j]]]} :
       \E res \in {exploit_and_explore(config, loc, pop, pop_workflow_state,
                                       choice, draws)} :
            /\ pop' = res[1]
            /\ pop_workflow_state' = res[2]
            /\ ee' = [loc |-> loc, tops_choice_indices |-> choice,
                      explore_keys |-> keys,
                      draws |-> draws, pop |-> pop,
                      pop_workflow_state |-> pop_workflow_state]
            /\ state' = StepReturn(state, res[1], res[2])
    /\ pbt_pc' = "record"
    /\ UNCHANGED <<config, pop_episode_returns, learn_i>>
    /\ UNCHANGED <<buildVars, learnVars, setupVars>>
    /\ UNCHANGED FramePbt

\* learn: self.recorder.write(workflow_metrics.to_local_dict(), i); the
\* recorder holds the writes in order and the data written last
RecordWorkflowMetrics ==
    /\ pbt_pc = "record"
    /\ recorder' = RecorderWrite(recorder, "workflow_metrics", state.metrics, learn_i)
    /\ pbt_pc' = "record_train"
    /\ UNCHANGED <<config, state, pop, pop_workflow_state, pop_episode_returns,
                   branch, learn_i, ee>>
    /\ UNCHANGED <<buildVars, checkpoint_manager, setupVars>>
    /\ UNCHANGED FramePbt

\* learn: self.recorder.write(train_metrics.to_local_dict(), i)
RecordTrainMetrics ==
    /\ pbt_pc = "record_train"
    /\ recorder' = RecorderWrite(recorder, "train_metrics",
                                 [pop_episode_returns |-> pop_episode_returns],
                                 learn_i)
    /\ pbt_pc' = "save"
    /\ UNCHANGED <<config, state, pop, pop_workflow_state, pop_episode_returns,
                   branch, learn_i, ee>>
    /\ UNCHANGED <<buildVars, checkpoint_manager, setupVars>>
    /\ UNCHANGED FramePbt

\* learn: self.checkpoint_manager.save(i, args=StandardSave(state)), then the
\* next i; the manager holds the steps saved and the State saved last
SaveCheckpoint ==
    /\ pbt_pc = "save"
    /\ checkpoint_manager' = CheckpointSave(checkpoint_manager, learn_i, state)
    /\ learn_i' = learn_i + 1
    /\ pbt_pc' = "learn"
    /\ UNCHANGED <<config, state, pop, pop_workflow_state, pop_episode_returns,
                   branch, ee>>
    /\ UNCHANGED <<buildVars, recorder, setupVars>>
    /\ UNCHANGED FramePbt

\* learn: range(num_iters) is exhausted, return state
LearnReturn ==
    /\ pbt_pc = "learn"
    /\ learn_i >= config.num_iters
    /\ pbt_pc' = "done"
    /\ UNCHANGED <<config, state, pop, pop_workflow_state, pop_episode_returns,
                   branch, learn_i, ee>>
    /\ UNCHANGED <<buildVars, learnVars, setupVars>>
    /\ UNCHANGED FramePbt

Next ==
    \/ BuildFromConfig
    \/ Setup
    \/ TrainSteps
    \/ Evaluate
    \/ Warmup
    \/ ExploitAndExplore
    \/ RecordWorkflowMetrics
    \/ RecordTrainMetrics
    \/ SaveCheckpoint
    \/ LearnReturn

Spec == Init /\ [][Next]_vars

-----------------------------------------------------------------------------
(* Properties of exploit_and_explore *)

Returned == pbt_pc = "returned"

Members == 1..config.pop_size
Elems(s) == {s[j] : j \in 1..Len(s)}
BottomSet == Elems(ee.loc.bottoms_indices)
DonorSet == Elems(ee.loc.tops_indices)

\* the members that rank among the n of highest fitness
AmongHighest(n) ==
    {i \in Members :
        Cardinality({j \in Members : pop_episode_returns[j] > pop_episode_returns[i]}) < n}

RatiosSumAtMostOne ==
    config.bottom_ratio[1] * config.top_ratio[2]
        + config.top_ratio[1] * config.bottom_ratio[2]
        <= config.bottom_ratio[2] * config.top_ratio[2]

\* C5: the members replaced are exactly round(pop_size * bottom_ratio) members
\* of lowest fitness and the donor set is exactly round(pop_size * top_ratio)
\* members of highest fitness; for the fitness [5, 1, 9, 3, 7] and both
\* ratios 0.2 the member of fitness 1 is replaced and the donor is the one of
\* fitness 9.
C5_RankPartition ==
    Returned =>
        /\ Cardinality(BottomSet) = round(config.pop_size * config.bottom_ratio[1],
                                          config.bottom_ratio[2])
        /\ \A i \in BottomSet : \A j \in Members \ BottomSet :
                pop_episode_returns[i] <= pop_episode_returns[j]
        /\ Cardinality(DonorSet) = round(config.pop_size * config.top_ratio[1],
                                         config.top_ratio[2])
        /\ \A i \in DonorSet : \A j \in Members \ DonorSet :
                pop_episode_returns[i] >= pop_episode_returns[j]
        /\ (/\ pop_episode_returns = <<5, 1, 9, 3, 7>>
            /\ config.bottom_ratio = <<1, 5>>
            /\ config.top_ratio = <<1, 5>>)
            => BottomSet = {2} /\ DonorSet = {3}

\* C6: every replaced member holds the pre-operation state of some member of
\* the top set, equal in every field but the learning rate, and its learning
\* rate is a perturbation of that donor's pre-operation learning rate.
C6_BottomsCopyTopDonor ==
    Returned =>
        \A i \in BottomSet :
            \E d \in AmongHighest(tops_num(config)) :
            \E k \in UniformDraws(config.perturb_factor) :
                /\ pop.lr[i] = Perturb(ee.pop.lr[d], config.perturb_factor, k)
                /\ pop_workflow_state[i] =
                      [ee.pop_workflow_state[d] EXCEPT
                          !.opt_state.hyperparams.learning_rate = pop.lr[i]]

\* C7: when bottoms_num = 0 or tops_num = 0 the operation returns pop and
\* pop_workflow_state as they were passed.
C7_ZeroCountIsIdentity ==
    (Returned /\ (ee.loc.bottoms_num = 0 \/ ee.loc.tops_num = 0)) =>
        /\ pop = ee.pop
        /\ pop_workflow_state = ee.pop_workflow_state

\* C8: when bottom_ratio + top_ratio <= 1 no member is both replaced and a
\* donor candidate.
C8_BottomTopDisjoint ==
    (Returned /\ RatiosSumAtMostOne) => BottomSet \cap DonorSet = {}

\* C9: a replaced member's optimizer state has the count, hyperparams_states
\* and inner_state of the donor drawn for it, and its injected learning rate
\* is the donor's pre-operation learning rate times (1 + u) for the draw u
\* in [-perturb_factor, perturb_factor): the donor's when perturb_factor = 0
\* or u = 0, another one otherwise.
C9_OptimizerStateFollowsDonor ==
    Returned =>
        \A j \in 1..Len(ee.loc.bottoms_indices) :
            LET new == pop_workflow_state[ee.loc.bottoms_indices[j]].opt_state
                top == ee.pop_workflow_state[ee.tops_choice_indices[j]].opt_state
            IN  /\ new.count = top.count
                /\ new.hyperparams_states = top.hyperparams_states
                /\ new.inner_state = top.inner_state
                /\ new.hyperparams.learning_rate =
                      Perturb(top.hyperparams.learning_rate,
                              config.perturb_factor, ee.draws[j])
                /\ config.perturb_factor[1] = 0 =>
                      new.hyperparams.learning_rate = top.hyperparams.learning_rate
                /\ new.hyperparams.learning_rate # top.hyperparams.learning_rate
                      <=> (config.perturb_factor[1] # 0 /\ ee.draws[j] # 0)

\* a member replaced by another member's state under a draw that is not 0
C9_Witness ==
    /\ Returned
    /\ \E j \in 1..Len(ee.loc.bottoms_indices) :
        /\ ee.tops_choice_indices[j] # ee.loc.bottoms_indices[j]
        /\ ee.draws[j] # 0
        /\ ee.loc.tops_num > 0
        /\ pop_workflow_state[ee.loc.bottoms_indices[j]].opt_state.inner_state
              = ee.pop_workflow_state[ee.tops_choice_indices[j]].opt_state.inner_state
        /\ pop_workflow_state[ee.loc.bottoms_indices[j]].opt_state.inner_state
              # ee.pop_workflow_state[ee.loc.bottoms_indices[j]].opt_state.inner_state
        /\ pop.lr[ee.loc.bottoms_indices[j]] # ee.pop.lr[ee.tops_choice_indices[j]]

\* C9 as stated: the learning rate differs from the donor's unless
\* perturb_factor = 0.
C9_LrDiffersUnlessZeroFactor ==
    Returned =>
        \A j \in 1..Len(ee.loc.bottoms_indices) :
            LET new == pop_workflow_state[ee.loc.bottoms_indices[j]].opt_state
                top == ee.pop_workflow_state[ee.tops_choice_indices[j]].opt_state
            IN  /\ new.count = top.count
                /\ new.hyperparams_states = top.hyperparams_states
                /\ new.inner_state = top.inner_state
                /\ config.perturb_factor[1] # 0 =>
                      new.hyperparams.learning_rate # top.hyperparams.learning_rate

-----------------------------------------------------------------------------
(* Properties of the PBT scheduler *)

\* the pair a step of Warmup or ExploitAndExplore ends in
AfterCond == pbt_pc = "record"

-----------------------------------------------------------------------------
(* Properties of the random keys and of setup *)

\* C11: in every State setup or step has returned, no two members hold the
\* same key and no member holds the scheduler's own key.
C11_MemberKeysDistinct ==
    state # <<>> =>
        /\ \A i, j \in 1..config.pop_size :
              i # j => state.pop_workflow_state[i].key # state.pop_workflow_state[j].key
        /\ \A i \in 1..config.pop_size :
              state.pop_workflow_state[i].key # state.key

-----------------------------------------------------------------------------
(* agent_gradient_update called on its own: SpecGrad *)

\* optimizer states, agent states, batches and keys f can be called with
GradArgs ==
    [opt_state : {[OptInit(lr) EXCEPT !.count = c, !.inner_state = inner] :
                      lr \in {LrUnit, 2 * LrUnit}, c \in 0..2,
                      inner \in {<<>>, <<"g">>}},
     agent_state : [params : {<<"p0">>, <<"p1">>},
                    obs_preprocessor_state : {<<>>, <<"s">>}],
     sample_batch : {"b0", "b1"},
     key : {<<0>>, <<1>>}]

GradInit ==
    /\ gu_args \in GradArgs
    /\ gu_pc = "call"
    /\ gu_ret = <<>>
    /\ RestGradIdle

\* value, agent_state, opt_state = f(opt_state, agent_state, sample_batch, key)
GradientUpdateCall ==
    /\ gu_pc = "call"
    /\ gu_ret' = agent_gradient_update(gu_args.opt_state, gu_args.agent_state,
                                       gu_args.sample_batch, gu_args.key)
    /\ gu_pc' = "returned"
    /\ UNCHANGED gu_args
    /\ UNCHANGED FrameGrad

SpecGrad == GradInit /\ [][GradientUpdateCall]_vars

\* C13: f returns the loss value, the agent state whose params are the input
\* params with the optimizer's update applied, and the optimizer's new
\* state; the states passed in are as they were.
C13_GradientUpdateApplied ==
    gu_pc = "returned" =>
        LET vg == LossAndGrad(gu_args.agent_state.params, gu_args.agent_state,
                              gu_args.sample_batch, gu_args.key)
            upd == OptimizerUpdate(vg[2], gu_args.opt_state)
        IN  /\ gu_ret[1] = vg[1]
            /\ gu_ret[2].params = ApplyUpdates(gu_args.agent_state.params, upd[1])
            /\ gu_ret[2].obs_preprocessor_state
                  = gu_args.agent_state.obs_preprocessor_state
            /\ gu_ret[3] = upd[2]
            /\ gu_args \in GradArgs

-----------------------------------------------------------------------------
(* setup called repeatedly on one workflow: SpecSetup *)

\* the keys setup is called with
Seeds == {<<0>>, <<1>>}

\* jax.random.uniform is a function of its key: one of these
Generators(cfg) == [{Split(k, 3, 2) : k \in Seeds} -> LrVectors(cfg)]

SetupInit ==
    /\ config \in SchedConfigs
    /\ state = <<>> /\ pop = <<>> /\ pop_workflow_state = <<>>
    /\ pop_episode_returns = <<>> /\ branch = "none" /\ learn_i = 0
    /\ ee = <<>>
    /\ pbt_pc = "built"
    /\ optimizer = TargetOptimizer
    /\ prng \in Generators(config)
    /\ setups = <<>>
    /\ BuildIdle /\ LearnIdle
    /\ RestPbtIdle

\* state = workflow.setup(key) for some key
SetupCall ==
    /\ pbt_pc = "built"
    /\ Len(setups) < MaxSetupCalls
    /\ \E k \in Seeds :
          /\ state' = SetupResult(OptimizerUsed(optimizer, SetupOptimizer(config)),
                                  k, config, prng[Split(k, 3, 2)])
          /\ setups' = Append(setups, [key |-> k, state |-> state'])
    /\ optimizer' = SetupOptimizer(config)
    /\ UNCHANGED <<config, pop, pop_workflow_state, pop_episode_returns,
                   branch, pbt_pc, learn_i, ee, prng>>
    /\ UNCHANGED <<buildVars, learnVars>>
    /\ UNCHANGED FramePbt

SpecSetup == SetupInit /\ [][SetupCall]_vars

-----------------------------------------------------------------------------
(* PPOWorkflow._build_from_config and the minibatches of one epoch: SpecPPO *)

PpoConfigs ==
    [rollout_length : 1..MaxRolloutLength, num_envs : 1..MaxNumEnvs,
     minibatch_size : 1..MaxMinibatchSize]

\* some of the orders jax.random.permutation(perm_key, x) can give the n
\* transitions: the rotations of 1..n and of n..1
Rotations(n) ==
    {[i \in 1..n |-> ((i - 1 + r) % n) + 1] : r \in 0..(n - 1)}
        \cup {[i \in 1..n |-> n - ((i - 1 + r) % n)] : r \in 0..(n - 1)}

\* _get_shuffled_minibatch(perm_key, x): x[: num_minibatches * minibatch_size]
\* reshaped to (num_minibatches, -1), x the shuffled transitions
GetShuffledMinibatch(x, num_minibatches, minibatch_size) ==
    [m \in 1..num_minibatches |->
        SubSeq(x, (m - 1) * minibatch_size + 1, m * minibatch_size)]

PpoInit ==
    /\ ppo_config \in PpoConfigs
    /\ missing_key \in {"raise", "None"}
    /\ ppo_pc = "build"
    /\ ppo_logger = <<>>
    /\ ppo_minibatches = <<>>
    /\ RestPpoIdle

\* _build_from_config: the check of one_step_rollout_steps against
\* minibatch_size; the message of the warning reads config.minibath_size,
\* a key the configuration does not have
PpoBuild ==
    /\ ppo_pc = "build"
    /\ LET one_step_rollout_steps == ppo_config.num_envs * ppo_config.rollout_length
       IN  IF one_step_rollout_steps % ppo_config.minibatch_size # 0
           THEN IF missing_key = "raise"
                THEN /\ ppo_pc' = "ConfigAttributeError"
                     /\ UNCHANGED ppo_logger
                ELSE /\ ppo_pc' = "built"
                     /\ ppo_logger' = Append(ppo_logger, "warning")
           ELSE /\ ppo_pc' = "built"
                /\ UNCHANGED ppo_logger
    /\ UNCHANGED <<ppo_config, missing_key, ppo_minibatches>>
    /\ UNCHANGED FramePpo

\* step: the minibatches of one epoch (reshape to (0, -1) fails when
\* num_minibatches is 0)
PpoEpoch ==
    /\ ppo_pc = "built"
    /\ LET n == ppo_config.rollout_length * ppo_config.num_envs
           num_minibatches == NumMinibatches(ppo_config.rollout_length,
                                             ppo_config.num_envs,
                                             ppo_config.minibatch_size)
       IN  IF num_minibatches = 0
           THEN /\ ppo_pc' = "reshape error"
                /\ UNCHANGED ppo_minibatches
           ELSE /\ ppo_pc' = "trained"
                /\ \E x \in Rotations(n) :
                      ppo_minibatches' =
                          GetShuffledMinibatch(x, num_minibatches,
                                               ppo_config.minibatch_size)
    /\ UNCHANGED <<ppo_config, missing_key, ppo_logger>>
    /\ UNCHANGED FramePpo

SpecPPO == PpoInit /\ [][PpoBuild \/ PpoEpoch]_vars

\* C14: when rollout_length * num_envs is not a multiple of minibatch_size,
\* the build logs a warning and does not raise, and an epoch trains on
\* floor(rollout_length * num_envs / minibatch_size) minibatches of
\* minibatch_size distinct transitions each.
C14_NonDivisibleWarnsAndTruncates ==
    LET n == ppo_config.rollout_length * ppo_config.num_envs
    IN  (ppo_pc \notin {"idle", "build"} /\ n % ppo_config.minibatch_size # 0) =>
            /\ ppo_pc # "ConfigAttributeError"
            /\ ppo_logger = <<"warning">>
            /\ ppo_pc = "trained" =>
                  /\ Len(ppo_minibatches) = n \div ppo_config.minibatch_size
                  /\ \A m \in 1..Len(ppo_minibatches) :
                        Cardinality({ppo_minibatches[m][j] :
                                        j \in 1..Len(ppo_minibatches[m])})
                            = ppo_config.minibatch_size

-----------------------------------------------------------------------------
(* Properties of build_from_config and learn *)

Built == pbt_pc \notin {"idle", "build"}

\* the sizes of the population held in a State
PopSizes(st) == {Len(st.pop.lr), Len(st.pop_workflow_state)}

\* C15: _rescale_config leaves pop_size at the largest multiple of the
\* number of devices that does not exceed the configured value, for every
\* configured value from 0 on; it logs a warning exactly when the value
\* changed; rescaling the result again changes nothing and warns nothing; the
\* configuration is not touched after the build, and the population of every
\* State of the run, and of every phase of step, has that many members.
C15_RescaleConfig ==
    /\ [](Built =>
            /\ config.pop_size % devices = 0
            /\ config.pop_size <= build_config.pop_size
            /\ build_config.pop_size - config.pop_size < devices
            /\ config.pop_size >= 0
            /\ (logger = <<"warning">>) <=> (config.pop_size # build_config.pop_size)
            /\ logger \in {<<>>, <<"warning">>}
            /\ RescalePopSize(config.pop_size, devices) = config.pop_size
            /\ ~RescaleWarns(config.pop_size, devices)
            /\ [build_config EXCEPT !.pop_size = config.pop_size] = config
            /\ (pbt_pc # "built" => PopSizes(state) = {config.pop_size})
            /\ (pbt_pc \in {"eval", "cond", "record", "record_train", "save"} =>
                    /\ Len(pop.lr) = config.pop_size
                    /\ Len(pop_workflow_state) = config.pop_size)
            /\ (pbt_pc \in {"cond", "record", "record_train", "save"} =>
                    Len(pop_episode_returns) = config.pop_size))
    /\ [][Built => config' = config /\ devices' = devices]_vars

\* a configured pop_size of 3 on 2 devices was rescaled to 2 with a warning,
\* and an exploit step ran on the two members
C15_Witness ==
    /\ pbt_pc = "save"
    /\ build_config.pop_size = 3 /\ devices = 2
    /\ config.pop_size = 2 /\ logger = <<"warning">>
    /\ branch = "_exploit_and_explore"
    /\ PopSizes(state) = {2}

\* what learn has written after n iterations: the two writes of every index
\* in turn
RECURSIVE WritesUpTo(_)
WritesUpTo(n) ==
    IF n = 0 THEN <<>>
    ELSE WritesUpTo(n - 1) \o <<[kind |-> "workflow_metrics", step |-> n - 1],
                                [kind |-> "train_metrics", step |-> n - 1]>>

\* the steps saved after n iterations
StepsUpTo(n) == [i \in 1..n |-> i - 1]

Writes == IF recorder = <<>> THEN <<>> ELSE recorder.writes
Saved == IF checkpoint_manager = <<>> THEN <<>> ELSE checkpoint_manager.steps

\* the position of learn inside one iteration, and how far learn is from
\* its return
PhaseRank ==
    CASE pbt_pc = "learn" -> 6
      [] pbt_pc = "eval" -> 5
      [] pbt_pc = "cond" -> 4
      [] pbt_pc = "record" -> 3
      [] pbt_pc = "record_train" -> 2
      [] pbt_pc = "save" -> 1
      [] OTHER -> 0
Remaining ==
    IF pbt_pc = "done" THEN 0
    ELSE 1 + 6 * (config.num_iters - learn_i) + PhaseRank

-----------------------------------------------------------------------------
(* envpool.py: EnvPoolAdapter and create_envpool_gym_env *)

MaxParallel == 3

EnvBackends == {"gymnasium", "gym", "brax", "gymnax", ""}

\* the members of AutoresetMode (evorl.envs.wrappers)
AutoresetModes == {"NORMAL", "FAST", "DISABLED", "ENVPOOL"}

EnvArgs ==
    [env_name : {"HalfCheetah-v4"}, env_backend : EnvBackends,
     episode_length : {1, 1000}, parallel : 1..MaxParallel,
     autoreset_mode : AutoresetModes]

ValueError == [raised |-> "ValueError"]

\* _create_env with every backend but "gym" taken for "gymnasium"
CreateEnvAnyBackend(env_backend, env_name, episode_length, num_envs) ==
    [make |-> IF env_backend = "gym" THEN "make_gym" ELSE "make_gymnasium",
     env_name |-> env_name, num_envs |-> num_envs,
     max_episode_steps |-> episode_length]

\* EnvPoolAdapter.__init__._create_env(num_envs): the envpool.make_* call,
\* or the ValueError
_create_env(env_backend, env_name, episode_length, num_envs) ==
    IF env_backend = "gymnasium"
    THEN [make |-> "make_gymnasium", env_name |-> env_name,
          num_envs |-> num_envs, max_episode_steps |-> episode_length]
    ELSE IF env_backend = "gym"
    THEN [make |-> "make_gym", env_name |-> env_name,
          num_envs |-> num_envs, max_episode_steps |-> episode_length]
    ELSE ValueError

\* EnvPoolAdapter(env_name, env_backend, episode_length, num_envs): the
\* envpool.make_* calls made and the adapter, or the exception; the dummy
\* environment gives the specs of reset and step, self.env stays None
EnvPoolAdapter(env_name, env_backend, episode_length, num_envs) ==
    LET dummy_env == _create_env(env_backend, env_name, episode_length, num_envs)
    IN  IF dummy_env = ValueError
        THEN [made |-> <<>>, ret |-> ValueError]
        ELSE [made |-> <<dummy_env>>,
              ret |-> [class |-> "EnvPoolAdapter", env |-> "None",
                       env_name |-> env_name, env_backend |-> env_backend,
                       episode_length |-> episode_length, num_envs |-> num_envs]]

\* create_envpool_gym_env: if autoreset_mode not in [ENVPOOL, DISABLED]
AutoresetSupported(autoreset_mode) == autoreset_mode \in {"ENVPOOL", "DISABLED"}

\* create_envpool_gym_env(env_name, env_backend, episode_length, parallel,
\* autoreset_mode)
create_envpool_gym_env(a) ==
    IF ~AutoresetSupported(a.autoreset_mode)
    THEN [made |-> <<>>, ret |-> ValueError]
    ELSE LET env == EnvPoolAdapter(a.env_name, a.env_backend, a.episode_length,
                                   a.parallel)
         IN  IF env.ret = ValueError THEN env
             ELSE IF a.autoreset_mode = "DISABLED"
             THEN [made |-> env.made,
                   ret |-> [class |-> "OneEpisodeWrapper", env |-> env.ret]]
             ELSE env

EnvInit ==
    /\ env_call \in {"EnvPoolAdapter", "create_envpool_gym_env"}
    /\ env_args \in EnvArgs
    /\ env_pc = "call"
    /\ env_made = <<>>
    /\ env_ret = <<>>
    /\ RestEnvIdle

\* EnvPoolAdapter(...) called directly
EnvPoolAdapterCall ==
    /\ env_pc = "call" /\ env_call = "EnvPoolAdapter"
    /\ \E r \in {EnvPoolAdapter(env_args.env_name, env_args.env_backend,
                                env_args.episode_length, env_args.parallel)} :
          /\ env_made' = r.made
          /\ env_ret' = r.ret
    /\ env_pc' = "done"
    /\ UNCHANGED <<env_call, env_args>>
    /\ UNCHANGED FrameEnv

\* create_envpool_gym_env(...) called
CreateEnvpoolGymEnvCall ==
    /\ env_pc = "call" /\ env_call = "create_envpool_gym_env"
    /\ \E r \in {create_envpool_gym_env(env_args)} :
          /\ env_made' = r.made
          /\ env_ret' = r.ret
    /\ env_pc' = "done"
    /\ UNCHANGED <<env_call, env_args>>
    /\ UNCHANGED FrameEnv

SpecEnv == EnvInit /\ [][EnvPoolAdapterCall \/ CreateEnvpoolGymEnvCall]_vars

EnvRaised == "raised" \in DOMAIN env_ret /\ env_ret.raised = "ValueError"

\* C17: constructing an EnvPoolAdapter with an env_backend other than
\* "gymnasium" and "gym" raises ValueError in the constructor, and
\* create_envpool_gym_env with an autoreset_mode other than ENVPOOL and
\* DISABLED raises ValueError before any environment is created.
C17_UnsupportedRaises ==
    env_pc = "done" =>
        /\ (env_call = "EnvPoolAdapter"
              /\ env_args.env_backend \notin {"gymnasium", "gym"})
            => (EnvRaised /\ env_made = <<>>)
        /\ (env_call = "create_envpool_gym_env"
              /\ env_args.autoreset_mode \notin {"ENVPOOL", "DISABLED"})
            => (EnvRaised /\ env_made = <<>>)
        /\ (env_call = "create_envpool_gym_env"
              /\ env_args.env_backend \notin {"gymnasium", "gym"})
            => (EnvRaised /\ env_made = <<>>)

\* the adapter was constructed with the backend "brax"
C17_Witness ==
    /\ env_pc = "done" /\ env_call = "EnvPoolAdapter"
    /\ env_args.env_backend = "brax" /\ EnvRaised

-----------------------------------------------------------------------------
(* ppo.py: PPOAgent.loss *)

MaxBatch == 2
MaxExtra == 1

\* transitions of a sample batch: the autoreset flag, the observation, the
\* value target, the advantage, and the behaviour policy's part of the
\* probability ratio (in tenths)
LossRows ==
    {[autoreset |-> 0, obs |-> 1, v_target |-> 3, advantage |-> 2, rho |-> 5],
     [autoreset |-> 0, obs |-> 2, v_target |-> 3, advantage |-> -1, rho |-> 13],
     [autoreset |-> 0, obs |-> 2, v_target |-> 0, advantage |-> 2, rho |-> 13],
     [autoreset |-> 1, obs |-> 1, v_target |-> 3, advantage |-> 2, rho |-> 5]}

\* transitions taken at an autoreset, with any values
GarbageRows ==
    {[autoreset |-> 1, obs |-> 1, v_target |-> 3, advantage |-> 2, rho |-> 5],
     [autoreset |-> 1, obs |-> 9, v_target |-> 50, advantage |-> 70, rho |-> 90],
     [autoreset |-> 1, obs |-> 9, v_target |-> 0, advantage |-> -70, rho |-> 0]}

\* x.mean(): the sum and the number of elements
PlainMean(x, mask) == <<SumTo(x, Len(x)), Len(x)>>

RECURSIVE SumWhere(_, _, _)
SumWhere(x, mask, n) ==
    IF n = 0 THEN 0
    ELSE SumWhere(x, mask, n - 1) + (IF mask[n] THEN x[n] ELSE 0)

\* x.mean(where=mask): the sum and the number of the elements the mask keeps
MaskedMean(x, mask) ==
    <<SumWhere(x, mask, Len(x)), SumWhere([i \in 1..Len(x) |-> 1], mask, Len(x))>>

\* PPOAgent.loss(agent_state, sample_batch, key).  The networks, the
\* preprocessor and the distributions act on each transition by itself:
\* the preprocessor subtracts the running mean, the value is twice the
\* observation, the ratio rho (in tenths) grows with the observation, the
\* entropy of a categorical policy is a function of the observation.  The
\* entropy of a tanh-normal policy is entropy(seed=key): an estimate from
\* one sample per transition, noise[i] for transition i.
PPOLoss(cfg, sample_batch, noise) ==
    LET n == Len(sample_batch)
        obs == [i \in 1..n |->
                  IF cfg.normalize_obs THEN sample_batch[i].obs - 1
                  ELSE sample_batch[i].obs]
        mask == [i \in 1..n |-> sample_batch[i].autoreset = 0]
        vs == [i \in 1..n |-> 2 * obs[i]]
        sq == [i \in 1..n |-> (vs[i] - sample_batch[i].v_target)
                              * (vs[i] - sample_batch[i].v_target)]
        rho == [i \in 1..n |-> sample_batch[i].rho + obs[i]]
        clipped == [i \in 1..n |->
                      IF rho[i] < 8 THEN 8 ELSE IF rho[i] > 12 THEN 12 ELSE rho[i]]
        l1 == [i \in 1..n |-> rho[i] * sample_batch[i].advantage]
        l2 == [i \in 1..n |-> clipped[i] * sample_batch[i].advantage]
        surr == [i \in 1..n |-> IF l1[i] < l2[i] THEN l1[i] ELSE l2[i]]
        entropy == [i \in 1..n |->
                      IF cfg.continuous_action THEN obs[i] + 3 * noise[i]
                      ELSE obs[i] + 1]
        policy == MaskedMean(surr, mask)
    IN  [actor_loss |-> <<0 - policy[1], policy[2]>>,
         critic_loss |-> MaskedMean(sq, mask),
         actor_entropy_loss |-> MaskedMean(entropy, mask)]

\* the samples entropy(seed=key) draws for a batch of n transitions, given
\* those the same key gave for a batch of m <= n: with the counter-per-element
\* generator (jax_threefry_partitionable) the sample of an element depends on
\* the key and the element's index; with the original generator the counters
\* are paired over the whole array, and the sample of an element depends on
\* the size of the batch too
EntropyNoise(cfg, n, before) ==
    IF ~cfg.continuous_action THEN {<<>>}
    ELSE {x \in [1..n -> {0, 1}] :
            cfg.threefry_partitionable =>
                \A i \in 1..Len(before) : x[i] = before[i]}

LossInit ==
    /\ loss_cfg \in [continuous_action : BOOLEAN, normalize_obs : BOOLEAN,
                     threefry_partitionable : BOOLEAN]
    /\ loss_batch \in {b \in UNION {[1..n -> LossRows] : n \in 1..MaxBatch} :
                          \E i \in 1..Len(b) : b[i].autoreset = 0}
    /\ loss_extra \in UNION {[1..n -> GarbageRows] : n \in 1..MaxExtra}
    /\ loss_pc = "call"
    /\ loss_noise = <<>>
    /\ loss_ret = <<>>
    /\ RestLossIdle

\* loss(agent_state, sample_batch, key)
LossCall ==
    /\ loss_pc = "call"
    /\ \E noise \in EntropyNoise(loss_cfg, Len(loss_batch), <<>>) :
          /\ loss_noise' = <<noise>>
          /\ loss_ret' = <<PPOLoss(loss_cfg, loss_batch, noise)>>
    /\ loss_pc' = "appended"
    /\ UNCHANGED <<loss_cfg, loss_batch, loss_extra>>
    /\ UNCHANGED FrameLoss

\* loss(agent_state, sample_batch with the transitions appended, key), the
\* same agent_state and key
LossCallAppended ==
    /\ loss_pc = "appended"
    /\ \E noise \in EntropyNoise(loss_cfg, Len(loss_batch) + Len(loss_extra),
                                 loss_noise[1]) :
          /\ loss_noise' = Append(loss_noise, noise)
          /\ loss_ret' = Append(loss_ret,
                                PPOLoss(loss_cfg, loss_batch \o loss_extra, noise))
    /\ loss_pc' = "done"
    /\ UNCHANGED <<loss_cfg, loss_batch, loss_extra>>
    /\ UNCHANGED FrameLoss

SpecLoss == LossInit /\ [][LossCall \/ LossCallAppended]_vars

\* two means, each a sum and a count, are the same number
SameMean(a, b) == a[2] # 0 /\ b[2] # 0 /\ a[1] * b[2] = b[1] * a[2]

Unmasked == Cardinality({i \in 1..Len(loss_batch) : loss_batch[i].autoreset = 0})

-----------------------------------------------------------------------------
(* Properties of the phases of PBTWorkflow.step *)

\* member i of the State step was called with, after its training
Trained(i) ==
    train_steps(state.pop_workflow_state[i], config.per_iter_workflow_steps)

\* the order of the positions of learn and step
PhaseOrder ==
    {<<"build", "built">>, <<"built", "learn">>, <<"learn", "eval">>,
     <<"eval", "cond">>, <<"cond", "record">>, <<"record", "record_train">>,
     <<"record_train", "save">>, <<"save", "learn">>, <<"learn", "done">>}

\* C19: in one step, every member has made its per_iter_workflow_steps
\* training steps before any member is evaluated; every member is evaluated
\* before the fitness is ranked; the ranking is made before exploit and
\* explore reads or writes a member; the fitness ranked is that of the
\* members as trained in this iteration.
C19_PhasesOrdered ==
    /\ [](/\ pbt_pc = "eval" =>
                /\ pop = state.pop
                /\ \A i \in 1..config.pop_size :
                      /\ pop_workflow_state[i] = Trained(i)
                      /\ pop_workflow_state[i].metrics.iterations =
                            (learn_i + 1) * config.per_iter_workflow_steps
          /\ pbt_pc = "cond" =>
                /\ pop = state.pop
                /\ Len(pop_episode_returns) = config.pop_size
                /\ \A i \in 1..config.pop_size :
                      /\ pop_workflow_state[i] = WorkflowEvaluate(Trained(i))
                      /\ pop_workflow_state[i].metrics.iterations =
                            (learn_i + 1) * config.per_iter_workflow_steps
          /\ (pbt_pc = "record" /\ branch = "_exploit_and_explore") =>
                /\ ee.loc = EEIndices(config, pop_episode_returns)
                /\ Len(ee.pop_workflow_state) = config.pop_size
                /\ \A i \in 1..config.pop_size :
                      /\ ee.pop_workflow_state[i].metrics.iterations =
                            (learn_i + 1) * config.per_iter_workflow_steps
                      /\ ee.pop_workflow_state[i].key[Len(ee.pop_workflow_state[i].key)]
                            = <<2, 0>>)
    /\ [][pbt_pc' # pbt_pc => <<pbt_pc, pbt_pc'>> \in PhaseOrder]_vars
    /\ [][pop_episode_returns' # pop_episode_returns => pbt_pc = "eval"]_vars
    /\ [][pop_workflow_state' # pop_workflow_state
            => pbt_pc \in {"learn", "eval", "cond"}]_vars
    /\ [][state' # state => pbt_pc \in {"built", "cond"}]_vars

\* an exploit step ranked members of different fitness, each trained twice
\* in this iteration and then evaluated
C19_Witness ==
    /\ pbt_pc = "record" /\ branch = "_exploit_and_explore"
    /\ config.pop_size = 3 /\ config.per_iter_workflow_steps = 2
    /\ pop_episode_returns = <<1, 9, 1>>
    /\ Len(ee.loc.bottoms_indices) > 0
    /\ \A i \in 1..3 : ee.pop_workflow_state[i].metrics.iterations = 2 * (learn_i + 1)

-----------------------------------------------------------------------------
(* The training phase of PBTWorkflow.step, as written *)

\* _train_steps(wf_state): the scan of per_iter_workflow_steps steps; the
\* metrics of the last step and the state
_train_steps(cfg, wf_state) ==
    LET wf == train_steps(wf_state, cfg.per_iter_workflow_steps)
    IN  [train_metrics |-> [iterations |-> wf.metrics.iterations],
         wf_state |-> wf]

\* train_steps_fn(*args): jax.vmap(_train_steps) when parallel_train, else
\* partial(jax.lax.map, _train_steps).  _train_steps takes one pytree of
\* arrays; vmap rejects an argument that is a function, lax.map takes one xs
train_steps_fn(cfg, args) ==
    IF Len(args) = 1 /\ args[1].kind = "pytree"
    THEN {[pop_train_metrics |->
              [i \in 1..Len(args[1].value) |->
                  _train_steps(cfg, args[1].value[i]).train_metrics],
           pop_workflow_state |->
              [i \in 1..Len(args[1].value) |->
                  _train_steps(cfg, args[1].value[i]).wf_state]]}
    ELSE IF cfg.parallel_train
    THEN {[raised |-> "TypeError"], [raised |-> "ValueError"]}
    ELSE {[raised |-> "TypeError"]}

TrainInit ==
    /\ \E c \in SchedConfigs, pt \in BOOLEAN :
          /\ train_config = [cfg |-> c, parallel_train |-> pt,
                             per_iter_workflow_steps |-> c.per_iter_workflow_steps]
          /\ \E lrs \in LrVectors(c) : train_state = PBTSetup(<<0>>, c, lrs)
    /\ train_pc = "train"
    /\ train_ret = <<>>
    /\ RestTrainIdle

\* step, "===== step ======":
\* train_steps_fn(_train_steps, pop_workflow_state)
TrainPhase ==
    /\ train_pc = "train"
    /\ \E r \in train_steps_fn(train_config,
                  <<[kind |-> "function", value |-> "_train_steps"],
                    [kind |-> "pytree", value |-> train_state.pop_workflow_state]>>) :
          /\ train_ret' = r
          /\ train_pc' = IF "raised" \in DOMAIN r THEN "raised" ELSE "eval"
    /\ UNCHANGED <<train_config, train_state>>
    /\ UNCHANGED FrameTrain

SpecTrain == TrainInit /\ [][TrainPhase]_vars

\* C20: the training phase leaves every member as per_iter_workflow_steps
\* training steps in sequence leave its own state, whatever the other
\* members are, the same for parallel_train true and false, and keeps the
\* metrics of the last step only.
C20_TrainPhase ==
    train_pc \notin {"idle", "train"} =>
        /\ train_pc = "eval"
        /\ "raised" \notin DOMAIN train_ret
        /\ Len(train_ret.pop_workflow_state) = Len(train_state.pop_workflow_state)
        /\ \A i \in 1..Len(train_state.pop_workflow_state) :
              /\ train_ret.pop_workflow_state[i] =
                    train_steps(train_state.pop_workflow_state[i],
                                train_config.per_iter_workflow_steps)
              /\ train_ret.pop_train_metrics[i].iterations =
                    train_state.pop_workflow_state[i].metrics.iterations
                       + train_config.per_iter_workflow_steps

-----------------------------------------------------------------------------
(* Properties of the perturbation in exploit_and_explore *)

-----------------------------------------------------------------------------
(* agent_gradient_update on the replicas of a mapped axis: SpecPgrad *)

MaxReplicas == 2

\* a gradient that is the replica's own, whatever the axis
PmeanLocal(axis_name, grads, r) == grads[r]

\* loss_and_pgrad: g when pmap_axis_name is None, else h, whose gradient is
\* jax.lax.pmean(grad, axis_name): the mean over the replicas of the axis, the
\* same value on each of them
pmean(axis_name, grads, r) ==
    IF axis_name = "None" THEN grads[r] ELSE [mean |-> grads]

\* f(opt_state, agent_state, sample_batch, key) on every replica of the axis,
\* args[r] the arguments of replica r
PmapGradientUpdate(axis_name, args) ==
    LET vg == [r \in 1..Len(args) |->
                  LossAndGrad(args[r].agent_state.params, args[r].agent_state,
                              args[r].sample_batch, args[r].key)]
        local == [r \in 1..Len(args) |-> vg[r][2]]
    IN  [r \in 1..Len(args) |->
            LET grads == pmean(axis_name, local, r)
                upd == OptimizerUpdate(grads, args[r].opt_state)
                params == ApplyUpdates(args[r].agent_state.params, upd[1])
            IN  [value |-> vg[r][1], grads |-> grads, params |-> params,
                 agent_state |-> args[r].agent_state, opt_state |-> upd[2]]]

PgradInit ==
    /\ \E axis \in {"None", "i"}, n \in 1..MaxReplicas :
          gu_args \in [axis_name : {axis},
                       replicas : [1..n ->
                          [opt_state : {OptInit(LrUnit), OptInit(2 * LrUnit)},
                           agent_state : [params : {<<"p0">>, <<"p1">>},
                                          obs_preprocessor_state : {<<>>}],
                           sample_batch : {"b0", "b1"},
                           key : {<<0>>}]]]
    /\ gu_pc = "pmap call"
    /\ gu_ret = <<>>
    /\ RestGradIdle

\* the mapped call: every replica calls f with its own arguments
PmapGradientUpdateCall ==
    /\ gu_pc = "pmap call"
    /\ gu_ret' = PmapGradientUpdate(gu_args.axis_name, gu_args.replicas)
    /\ gu_pc' = "pmap returned"
    /\ UNCHANGED gu_args
    /\ UNCHANGED FrameGrad

SpecPgrad == PgradInit /\ [][PmapGradientUpdateCall]_vars

\* the gradient of replica r's own loss
LocalGrad(r) ==
    <<"grads", gu_args.replicas[r].agent_state.params,
      gu_args.replicas[r].sample_batch, gu_args.replicas[r].key>>

\* C22: with an axis name every replica hands the optimizer the mean of all
\* the replicas' gradients, and replicas that start with the same parameters
\* and optimizer state end with the same parameters and optimizer state,
\* whatever their batches; without an axis name every replica hands the
\* optimizer its own gradient and the call is the unmapped one.
C22_GradientsSynchronised ==
    gu_pc = "pmap returned" =>
        LET R == 1..Len(gu_args.replicas)
            last(q) == q[Len(q)]
        IN  /\ gu_args.axis_name # "None" =>
                /\ \A r \in R :
                      /\ DOMAIN gu_ret[r].grads = {"mean"}
                      /\ Len(gu_ret[r].grads.mean) = Len(gu_args.replicas)
                      /\ \A q \in R : gu_ret[r].grads.mean[q] = LocalGrad(q)
                      /\ last(gu_ret[r].opt_state.inner_state) = gu_ret[r].grads
                /\ \A r, q \in R :
                      (/\ gu_args.replicas[r].agent_state.params
                            = gu_args.replicas[q].agent_state.params
                       /\ gu_args.replicas[r].opt_state = gu_args.replicas[q].opt_state)
                      => /\ gu_ret[r].agent_state.params = gu_ret[q].agent_state.params
                         /\ gu_ret[r].params = gu_ret[q].params
                         /\ gu_ret[r].opt_state = gu_ret[q].opt_state
            /\ gu_args.axis_name = "None" =>
                \A r \in R :
                    /\ gu_ret[r].grads = LocalGrad(r)
                    /\ last(gu_ret[r].opt_state.inner_state) = LocalGrad(r)
                    /\ <<gu_ret[r].value, gu_ret[r].agent_state, gu_ret[r].opt_state>>
                          = agent_gradient_update(gu_args.replicas[r].opt_state,
                                                  gu_args.replicas[r].agent_state,
                                                  gu_args.replicas[r].sample_batch,
                                                  gu_args.replicas[r].key)

\* two replicas of an axis with the same parameters and optimizer state and
\* different batches
C22_Witness ==
    /\ gu_pc = "pmap returned"
    /\ gu_args.axis_name = "i"
    /\ Len(gu_args.replicas) = 2
    /\ gu_args.replicas[1].agent_state = gu_args.replicas[2].agent_state
    /\ gu_args.replicas[1].opt_state = gu_args.replicas[2].opt_state
    /\ gu_args.replicas[1].sample_batch # gu_args.replicas[2].sample_batch
    /\ gu_ret[1].opt_state = gu_ret[2].opt_state

-----------------------------------------------------------------------------
(* The epochs of PPOWorkflow.step: SpecShuffle *)

MaxEpochs == 2

\* the fields of the flattened trajectory the loss reads
TrajectoryFields ==
    {"obs", "actions", "logp", "advantages", "v_targets", "autoreset"}

\* field f of the flattened trajectory of n transitions: the value of
\* transition i
Leaf(f, n) == [i \in 1..n |-> <<f, i>>]

\* two of the orders jax.random.permutation can give n elements
TwoOrders(n) == {[i \in 1..n |-> (i % n) + 1], [i \in 1..n |-> n + 1 - i]}

\* a key of its own for every field
LeafKeySplit(perm_key, f) == Append(perm_key, <<"leaf", f>>)

\* jtu.tree_map(partial(_get_shuffled_minibatch, perm_key), trajectory): the
\* key the leaf f is shuffled with
LeafKey(perm_key, f) == perm_key

\* jax.random.permutation(key, x) for the keys used: a function of the key
\* (every leaf has the n transitions on its first axis)
KeyPermutations(keys, n) == [keys -> TwoOrders(n)]

\* the configurations whose epochs have a minibatch (C14 has the others)
ShuffleConfigs ==
    {c \in [rollout_length : 1..MaxRolloutLength, num_envs : 1..MaxNumEnvs,
            minibatch_size : 1..MaxMinibatchSize,
            reuse_rollout_epochs : 1..MaxEpochs] :
        c.rollout_length * c.num_envs >= c.minibatch_size}

\* step up to the scan over the epochs: learn_key of split(state.key, 3)
ShuffleInit ==
    /\ shuf_config \in ShuffleConfigs
    /\ shuf_key = Split(<<0>>, 3, 2)
    /\ shuf_pc = "epochs"
    /\ shuf_epochs = <<>>
    /\ RestShufIdle

\* epoch_step(carry, _): the two keys, the minibatches of every leaf, the scan
\* of minibatch_step over them, and the key it leaves in the carry
EpochStep ==
    /\ shuf_pc = "epochs"
    /\ Len(shuf_epochs) < shuf_config.reuse_rollout_epochs
    /\ LET n == shuf_config.rollout_length * shuf_config.num_envs
           num_minibatches == NumMinibatches(shuf_config.rollout_length,
                                             shuf_config.num_envs,
                                             shuf_config.minibatch_size)
           perm_key == Split(shuf_key, 2, 0)
           learn_key == Split(shuf_key, 2, 1)
       IN  /\ \E permutation \in
                    KeyPermutations({LeafKey(perm_key, f) : f \in TrajectoryFields}, n) :
                 shuf_epochs' = Append(shuf_epochs,
                    [perm_key |-> perm_key,
                     minibatches |->
                        [f \in TrajectoryFields |->
                            GetShuffledMinibatch(
                                [i \in 1..n |->
                                    Leaf(f, n)[permutation[LeafKey(perm_key, f)][i]]],
                                num_minibatches, shuf_config.minibatch_size)]])
           /\ shuf_key' = MinibatchScan(<<OptInit(LrUnit), AgentInit(<<0>>), learn_key>>,
                                        "trajectory", perm_key, 1, num_minibatches)[3]
    /\ UNCHANGED <<shuf_config, shuf_pc>>
    /\ UNCHANGED FrameShuf

\* the scan over the epochs is over
EpochsDone ==
    /\ shuf_pc = "epochs"
    /\ Len(shuf_epochs) = shuf_config.reuse_rollout_epochs
    /\ shuf_pc' = "metrics"
    /\ UNCHANGED <<shuf_config, shuf_key, shuf_epochs>>
    /\ UNCHANGED FrameShuf

SpecShuffle == ShuffleInit /\ [][EpochStep \/ EpochsDone]_vars

\* the transitions in the minibatches of field f in epoch e
UsedIn(e, f) ==
    {shuf_epochs[e].minibatches[f][m][j][2] :
        m \in 1..Len(shuf_epochs[e].minibatches[f]),
        j \in 1..shuf_config.minibatch_size}

\* C23: every epoch of a step shuffles with a key no other epoch of the step
\* uses; in a minibatch the entries of all the fields at one position are
\* those of one transition; no transition is in two places of an epoch, and
\* every transition is in one when minibatch_size divides their number.
C23_ShuffleConsistent ==
    shuf_pc # "idle" =>
        LET n == shuf_config.rollout_length * shuf_config.num_envs
            num == n \div shuf_config.minibatch_size
            E == 1..Len(shuf_epochs)
        IN  /\ \A e, d \in E :
                  e # d => shuf_epochs[e].perm_key # shuf_epochs[d].perm_key
            /\ \A e \in E : \A f \in TrajectoryFields :
                  /\ Len(shuf_epochs[e].minibatches[f]) = num
                  /\ \A m \in 1..num :
                        /\ Len(shuf_epochs[e].minibatches[f][m])
                              = shuf_config.minibatch_size
                        /\ \A j \in 1..shuf_config.minibatch_size :
                              /\ shuf_epochs[e].minibatches[f][m][j][1] = f
                              /\ shuf_epochs[e].minibatches[f][m][j][2]
                                    = shuf_epochs[e].minibatches["obs"][m][j][2]
                  /\ UsedIn(e, f) \subseteq 1..n
                  /\ Cardinality(UsedIn(e, f)) = num * shuf_config.minibatch_size
                  /\ (n % shuf_config.minibatch_size = 0 => UsedIn(e, f) = 1..n)

\* two epochs over four transitions in minibatches of two, shuffled in
\* different orders
C23_Witness ==
    /\ shuf_pc = "metrics"
    /\ shuf_config.rollout_length * shuf_config.num_envs = 4
    /\ shuf_config.minibatch_size = 2
    /\ Len(shuf_epochs) = 2
    /\ shuf_epochs[1].minibatches["obs"] # shuf_epochs[2].minibatches["obs"]
    /\ shuf_epochs[1].minibatches["obs"][1][1][2] # 1

(***************************************************************************)
(* The scheduler's counters                                                *)
(***************************************************************************)

\* the calls of step that have returned to learn
StepsReturned ==
    learn_i + (IF pbt_pc \in {"record", "record_train", "save"} THEN 1 ELSE 0)

\* the timesteps one member samples in one scheduler iteration
TimestepsPerIteration ==
    config.per_iter_workflow_steps * TargetConfig.rollout_length * TargetConfig.num_envs

\* C24: after n calls of step from a fresh setup, whichever branch each took,
\* the scheduler's iterations is n, its sampled_timesteps is the sum of the
\* members' own counters in the population state returned, every member has
\* counted n * per_iter_workflow_steps iterations of rollout_length * num_envs
\* timesteps, and the sum is pop_size * n * per_iter_workflow_steps *
\* rollout_length * num_envs
C24_MetricsAccount ==
    state # <<>> =>
        /\ state.metrics.iterations = StepsReturned
        /\ state.metrics.sampled_timesteps =
              SumTo([i \in 1..config.pop_size |->
                        state.pop_workflow_state[i].metrics.sampled_timesteps],
                    config.pop_size)
        /\ \A i \in 1..config.pop_size :
              /\ state.pop_workflow_state[i].metrics.iterations =
                    StepsReturned * config.per_iter_workflow_steps
              /\ state.pop_workflow_state[i].metrics.sampled_timesteps =
                    StepsReturned * TimestepsPerIteration
        /\ state.metrics.sampled_timesteps =
              config.pop_size * StepsReturned * TimestepsPerIteration

\* a second step has returned through the exploit branch with members
\* replaced, after a first step through the warmup branch
C24_Witness ==
    /\ pbt_pc = "record" /\ branch = "_exploit_and_explore"
    /\ config.pop_size >= 3 /\ config.per_iter_workflow_steps = 2
    /\ ee # <<>> /\ Len(ee.loc.bottoms_indices) >= 1
    /\ state.metrics.iterations >= 2
    /\ state.metrics.sampled_timesteps > 0

(***************************************************************************)
(* EnvPoolAdapter and OneEpisodeWrapper: reset and step                    *)
(***************************************************************************)

MaxSlots == 2
MaxEpisodeLength == 3
MaxEnvSteps == 3

\* how an episode of the pool ends
EpisodeEnds == {"termination", "truncation", "both"}

\* the pool behind the adapter: num_envs slots, each with the length of its
\* episodes and the way they end
Pools ==
    UNION {[1..n -> [length : 1..MaxEpisodeLength, end : EpisodeEnds]] :
              n \in 1..MaxSlots}

\* the actions of one step, one per slot
Actions(n) == {[j \in 1..n |-> a] : a \in {0, 1}}

\* self._reset(key): the first observations
PoolReset(pool) == [j \in 1..Len(pool) |-> <<j, 0>>]

\* self._step(action), the t-th step of the pool: obs, reward, termination,
\* truncation of every slot; the reward depends on the action
PoolStep(pool, t, action) ==
    [obs |-> [j \in 1..Len(pool) |-> <<j, t>>],
     reward |-> [j \in 1..Len(pool) |-> 1 + ((action[j] + j) % 2)],
     termination |->
        [j \in 1..Len(pool) |->
            IF t % pool[j].length = 0 /\ pool[j].end \in {"termination", "both"}
            THEN 1 ELSE 0],
     truncation |->
        [j \in 1..Len(pool) |->
            IF t % pool[j].length = 0 /\ pool[j].end \in {"truncation", "both"}
            THEN 1 ELSE 0]]

\* jnp.zeros((self.num_envs,))
Zeros(n) == [j \in 1..n |-> 0]

\* jnp.logical_or(termination, truncation).astype(jnp.float32)
LogicalOr(a, b) == [j \in 1..Len(a) |-> IF a[j] # 0 \/ b[j] # 0 THEN 1 ELSE 0]

\* EnvPoolAdapter.reset(key), obs what self._reset returned
EnvPoolAdapterReset(obs) ==
    [env_state |-> "None",
     obs |-> obs,
     reward |-> Zeros(Len(obs)),
     done |-> Zeros(Len(obs)),
     info |-> [termination |-> Zeros(Len(obs)),
               truncation |-> Zeros(Len(obs)),
               episode_return |-> Zeros(Len(obs)),
               autoreset |-> Zeros(Len(obs))]]

\* a step that goes on adding to episode_return after a done
EnvPoolAdapterStepNoRestart(st, out) ==
    [st EXCEPT
        !.obs = out.obs,
        !.reward = out.reward,
        !.done = LogicalOr(out.termination, out.truncation),
        !.info = [st.info EXCEPT
            !.termination = out.termination,
            !.truncation = out.truncation,
            !.episode_return =
                [j \in 1..Len(st.done) |-> st.info.episode_return[j] + out.reward[j]],
            !.autoreset = st.done]]

\* EnvPoolAdapter.step(state, action), out what self._step(action) returned
EnvPoolAdapterStep(st, out) ==
    LET episode_return ==
            [j \in 1..Len(st.done) |-> st.info.episode_return[j] * (1 - st.done[j])]
    IN  [st EXCEPT
            !.obs = out.obs,
            !.reward = out.reward,
            !.done = LogicalOr(out.termination, out.truncation),
            !.info = [st.info EXCEPT
                !.termination = out.termination,
                !.truncation = out.truncation,
                !.episode_return =
                    [j \in 1..Len(st.done) |-> episode_return[j] + out.reward[j]],
                !.autoreset = st.done]]

\* a where_done that always takes the new value
WhereNew(done, x, y) == y

\* OneEpisodeWrapper.step.where_done(x, y): jnp.where(done, x, y), done the
\* flags of the state step was called with
where_done(done, x, y) == [j \in 1..Len(done) |-> IF done[j] # 0 THEN x[j] ELSE y[j]]

\* OneEpisodeWrapper.step(state, action): tree_map of where_done over the
\* leaves of state and of self.env.step(state, action); env_state is None
OneEpisodeWrapperStep(st, out) ==
    LET new == EnvPoolAdapterStep(st, out)
    IN  [env_state |-> "None",
         obs |-> where_done(st.done, st.obs, new.obs),
         reward |-> where_done(st.done, st.reward, new.reward),
         done |-> where_done(st.done, st.done, new.done),
         info |-> [f \in DOMAIN st.info |-> where_done(st.done, st.info[f], new.info[f])]]

\* an adapter over some pool, wrapped or not, before reset
EpisodeInit ==
    /\ epi_wrapped \in BOOLEAN
    /\ epi_pool \in Pools
    /\ epi_pc = "reset"
    /\ epi_state = <<>>
    /\ epi_outs = <<>>
    /\ RestEpiIdle

\* state = env.reset(key); Wrapper.reset is the wrapped environment's
EnvReset ==
    /\ epi_pc = "reset"
    /\ epi_state' = EnvPoolAdapterReset(PoolReset(epi_pool))
    /\ epi_pc' = "step"
    /\ UNCHANGED <<epi_wrapped, epi_pool, epi_outs>>
    /\ UNCHANGED FrameEpi

\* state = env.step(state, action) of the adapter itself
EnvStep ==
    /\ epi_pc = "step" /\ ~epi_wrapped
    /\ Len(epi_outs) < MaxEnvSteps
    /\ \E action \in Actions(Len(epi_pool)) :
       \E out \in {PoolStep(epi_pool, Len(epi_outs) + 1, action)} :
          /\ epi_state' = EnvPoolAdapterStep(epi_state, out)
          /\ epi_outs' = Append(epi_outs, out)
    /\ UNCHANGED <<epi_wrapped, epi_pool, epi_pc>>
    /\ UNCHANGED FrameEpi

\* state = env.step(state, action) of the OneEpisodeWrapper
WrappedStep ==
    /\ epi_pc = "step" /\ epi_wrapped
    /\ Len(epi_outs) < MaxEnvSteps
    /\ \E action \in Actions(Len(epi_pool)) :
       \E out \in {PoolStep(epi_pool, Len(epi_outs) + 1, action)} :
          /\ epi_state' = OneEpisodeWrapperStep(epi_state, out)
          /\ epi_outs' = Append(epi_outs, out)
    /\ UNCHANGED <<epi_wrapped, epi_pool, epi_pc>>
    /\ UNCHANGED FrameEpi

SpecEpisode == EpisodeInit /\ [][EnvReset \/ EnvStep \/ WrappedStep]_vars

\* slot j was done at the k-th step of the pool
DoneAt(j, k) ==
    k \in 1..Len(epi_outs)
        /\ (epi_outs[k].termination[j] = 1 \/ epi_outs[k].truncation[j] = 1)

\* the rewards slot j received at the steps a..b
RECURSIVE RewardsReceived(_, _, _)
RewardsReceived(j, a, b) ==
    IF b < a THEN 0 ELSE epi_outs[b].reward[j] + RewardsReceived(j, a, b - 1)

\* the last step before the n-th at which slot j was done, 0 if none
LastDoneBefore(j, n) ==
    LET ks == {k \in 1..(n - 1) : DoneAt(j, k)}
    IN  IF ks = {} THEN 0 ELSE CHOOSE k \in ks : \A l \in ks : l <= k

\* C25: along reset, step, step, ... of EnvPoolAdapter, in every slot: after
\* reset done, reward, autoreset and episode_return are 0; after a step done
\* is termination OR truncation, autoreset is the done flag of the state
\* before, and episode_return is the sum of the rewards received after the
\* most recent earlier done step
C25_EpisodeAccounting ==
    (~epi_wrapped /\ epi_state # <<>>) =>
        LET n == Len(epi_outs)
        IN  \A j \in 1..Len(epi_pool) :
              IF n = 0
              THEN /\ epi_state.done[j] = 0 /\ epi_state.reward[j] = 0
                   /\ epi_state.info.autoreset[j] = 0
                   /\ epi_state.info.episode_return[j] = 0
              ELSE /\ epi_state.done[j] = (IF DoneAt(j, n) THEN 1 ELSE 0)
                   /\ epi_state.reward[j] = epi_outs[n].reward[j]
                   /\ epi_state.info.autoreset[j] = (IF DoneAt(j, n - 1) THEN 1 ELSE 0)
                   /\ epi_state.info.episode_return[j] =
                        RewardsReceived(j, LastDoneBefore(j, n) + 1, n)

\* three steps: a slot done at the second, flagged and restarted at the third,
\* with another slot that has run three steps without a done
C25_Witness ==
    /\ ~epi_wrapped /\ Len(epi_outs) = 3 /\ Len(epi_pool) = 2
    /\ \E j \in 1..2 :
          /\ DoneAt(j, 2) /\ ~DoneAt(j, 3)
          /\ epi_state.info.autoreset[j] = 1
          /\ epi_state.info.episode_return[j] = epi_state.reward[j]
    /\ \E j \in 1..2 :
          /\ DoneAt(j, 3) /\ ~DoneAt(j, 1) /\ ~DoneAt(j, 2)
          /\ epi_state.info.episode_return[j] > epi_state.reward[j]

\* the first step at which slot j was done, 0 if none
FirstDone(j) ==
    LET ks == {k \in 1..Len(epi_outs) : DoneAt(j, k)}
    IN  IF ks = {} THEN 0 ELSE CHOOSE k \in ks : \A l \in ks : k <= l

\* C30: with OneEpisodeWrapper, a slot that was done at some step keeps the
\* state of its first done step at every later step (obs, reward, done and
\* all of info), and a slot that has not been done holds what the wrapped
\* environment's steps give
C30_DoneSlotsFrozen ==
    (epi_wrapped /\ epi_state # <<>> /\ Len(epi_outs) > 0) =>
        \A j \in 1..Len(epi_pool) :
            LET f == FirstDone(j)
                k == IF f = 0 THEN Len(epi_outs) ELSE f
            IN  /\ epi_state.obs[j] = epi_outs[k].obs[j]
                /\ epi_state.reward[j] = epi_outs[k].reward[j]
                /\ epi_state.done[j] = (IF f = 0 THEN 0 ELSE 1)
                /\ epi_state.info.termination[j] = epi_outs[k].termination[j]
                /\ epi_state.info.truncation[j] = epi_outs[k].truncation[j]
                /\ epi_state.info.autoreset[j] = 0
                /\ epi_state.info.episode_return[j] = RewardsReceived(j, 1, k)

\* three steps: a slot done at the first and stepped twice more, beside a
\* slot that ran to the third step
C30_Witness ==
    /\ epi_wrapped /\ Len(epi_outs) = 3 /\ Len(epi_pool) = 2
    /\ \E j \in 1..2 : FirstDone(j) = 1 /\ epi_state.obs[j] = <<j, 1>>
    /\ \E j \in 1..2 : FirstDone(j) = 3 /\ epi_state.obs[j] = <<j, 3>>

(***************************************************************************)
(* OpenES: compute_ranks and compute_centered_ranks                        *)
(***************************************************************************)

MaxRankLen == 4
MaxRankValue == 4

\* the 1-D arrays of distinct values
DistinctArrays ==
    {x \in UNION {[1..n -> 1..MaxRankValue] : n \in 1..MaxRankLen} :
        \A i, j \in 1..Len(x) : i # j => x[i] # x[j]}

\* x.argsort(descending=True): at position i the 0-based index of the
\* i-th largest entry
ArgsortDescending(x) ==
    [i \in 1..Len(x) |->
        (CHOOSE j \in 1..Len(x) :
            Cardinality({k \in 1..Len(x) : x[k] > x[j]}) = i - 1) - 1]

\* jnp.arange(n)
Arange(n) == [i \in 1..n |-> i - 1]

\* compute_ranks(x) = jnp.arange(len(x))[x.argsort(descending=True)]:
\* arange gathered at the sorting indices
compute_ranks(x) ==
    LET idx == ArgsortDescending(x)
    IN  [i \in 1..Len(x) |-> Arange(Len(x))[idx[i] + 1]]

\* y / (x.size - 1) - 0.5 as a fraction; 0 / 0 is nan
Centered(y, size) ==
    IF size = 1 THEN [nan |-> TRUE]
    ELSE [num |-> 2 * y - (size - 1), den |-> 2 * (size - 1)]

\* compute_centered_ranks(x)
compute_centered_ranks(x) ==
    LET y == compute_ranks(x)
    IN  [i \in 1..Len(x) |-> Centered(y[i], Len(x))]

\* a call of one of the two functions with some array
RanksInit ==
    /\ rk_call \in {"compute_ranks", "compute_centered_ranks"}
    /\ rk_x \in DistinctArrays
    /\ rk_pc = "call"
    /\ rk_ret = <<>>
    /\ RestRkIdle

ComputeRanksCall ==
    /\ rk_pc = "call" /\ rk_call = "compute_ranks"
    /\ rk_ret' = compute_ranks(rk_x)
    /\ rk_pc' = "done"
    /\ UNCHANGED <<rk_call, rk_x>>
    /\ UNCHANGED FrameRk

ComputeCenteredRanksCall ==
    /\ rk_pc = "call" /\ rk_call = "compute_centered_ranks"
    /\ rk_ret' = compute_centered_ranks(rk_x)
    /\ rk_pc' = "done"
    /\ UNCHANGED <<rk_call, rk_x>>
    /\ UNCHANGED FrameRk

SpecRanks == RanksInit /\ [][ComputeRanksCall \/ ComputeCenteredRanksCall]_vars

\* out is monotone in the values of x, in one of the two directions
Monotone(x, out) ==
    \/ \A i, j \in 1..Len(x) : x[i] < x[j] => out[i] < out[j]
    \/ \A i, j \in 1..Len(x) : x[i] < x[j] => out[i] > out[j]

\* C26: for x of distinct values compute_ranks(x) is a permutation of
\* 0..len(x)-1 that is monotone in the values of x, in one direction
C26_RanksMonotone ==
    (rk_pc = "done" /\ rk_call = "compute_ranks") =>
        /\ {rk_ret[i] : i \in 1..Len(rk_x)} = 0..(Len(rk_x) - 1)
        /\ Monotone(rk_x, rk_ret)

\* what does hold: the output is a permutation of 0..len(x)-1, namely the
\* indices that sort x in descending order
C26_RanksAreSortingIndices ==
    (rk_pc = "done" /\ rk_call = "compute_ranks") =>
        /\ {rk_ret[i] : i \in 1..Len(rk_x)} = 0..(Len(rk_x) - 1)
        /\ \A i \in 1..(Len(rk_x) - 1) : rk_x[rk_ret[i] + 1] > rk_x[rk_ret[i + 1] + 1]

(***************************************************************************)
(* The learning rate of a member and the one its optimizer holds           *)
(***************************************************************************)

\* the learning_rate in the optimizer state of member i of the population wfs
InjectedLr(wfs, i) == wfs[i].opt_state.hyperparams.learning_rate

\* C27: in every scheduler state, after setup and after every step, warmup
\* or not, pop.lr[i] is the learning_rate in member i's optimizer-state
\* hyperparameters; the training and the evaluation of a step leave that
\* learning rate as it was
C27_LrInjected ==
    state # <<>> =>
        /\ \A i \in 1..config.pop_size :
              state.pop.lr[i] = InjectedLr(state.pop_workflow_state, i)
        /\ pbt_pc \in {"eval", "cond"} =>
              \A i \in 1..config.pop_size :
                 InjectedLr(pop_workflow_state, i) = InjectedLr(state.pop_workflow_state, i)

\* a step through the exploit branch has returned, with a bottom member whose
\* learning rate was replaced by a perturbed one, after members have trained
C27_Witness ==
    /\ pbt_pc = "record" /\ branch = "_exploit_and_explore"
    /\ config.pop_size >= 3
    /\ \E i \in 1..config.pop_size :
          /\ state.pop.lr[i] # ee.pop.lr[i]
          /\ state.pop.lr[i] = InjectedLr(state.pop_workflow_state, i)
          /\ state.pop_workflow_state[i].opt_state.count > 0
    /\ \E i, j \in 1..config.pop_size : state.pop.lr[i] # state.pop.lr[j]

(***************************************************************************)
(* What exploit_and_explore leaves alone                                   *)
(***************************************************************************)

\* member i has the hyperparameters and the TrainingState it had before
MemberUnchanged(i) ==
    /\ pop.lr[i] = ee.pop.lr[i]
    /\ pop_workflow_state[i] = ee.pop_workflow_state[i]

\* the donors jax.random.choice drew
ChosenDonors == Elems(ee.tops_choice_indices)

\* C28: exploit_and_explore changes only members of the bottom set: every
\* member outside it, and every donor, has the hyperparameters and the
\* TrainingState it had before, and the population keeps its size and order
C28_OnlyBottomsChange ==
    Returned =>
        /\ Len(pop.lr) = Len(ee.pop.lr)
        /\ Len(pop_workflow_state) = Len(ee.pop_workflow_state)
        /\ \A i \in (1..config.pop_size) \ BottomSet : MemberUnchanged(i)
        /\ \A i \in ChosenDonors : MemberUnchanged(i)

\* what does hold: the members outside the bottom set, donors or not, are as
\* they were, and the population keeps its size
C28_OutsideBottomsUnchanged ==
    Returned =>
        /\ Len(pop.lr) = Len(ee.pop.lr)
        /\ Len(pop_workflow_state) = Len(ee.pop_workflow_state)
        /\ \A i \in (1..config.pop_size) \ BottomSet : MemberUnchanged(i)

(***************************************************************************)
(* PPOWorkflow.learn                                                       *)
(***************************************************************************)

MaxTotalTimesteps == 7
MaxEvalInterval == 3
MaxStartIteration == 3

\* config.total_timesteps, eval_interval, and the rollout of the target
\* workflow's configuration
PPOLearnConfigs ==
    [total_timesteps : 0..MaxTotalTimesteps,
     eval_interval : 1..MaxEvalInterval,
     rollout_length : {TargetConfig.rollout_length},
     num_envs : {TargetConfig.num_envs}]

\* num_iters = math.ceil(total_timesteps / (rollout_length * num_envs))
PPONumIters(cfg) == ceil(cfg.total_timesteps, cfg.rollout_length * cfg.num_envs)

\* a loop that starts at 0 whatever the state
RangeStartZero(start_iteration) == 0

\* range(start_iteration, num_iters): its first value
RangeStart(start_iteration) == start_iteration

\* one call of learn logged: what was called and with which index
Logged(log, call, index) == Append(log, [call |-> call, index |-> index])

\* learn(state), state either fresh or restored from the checkpoint of an
\* earlier run that saved the indices 1..s
PPOLearnInit ==
    /\ pl_config \in PPOLearnConfigs
    /\ pl_start \in 0..MaxStartIteration
    /\ pl_state = train_steps(WorkflowSetup(<<0>>, [lr_low |-> LrUnit]), pl_start)
    /\ pl_i = RangeStart(pl_state.metrics.iterations)
    /\ pl_pc = "loop"
    /\ pl_log = <<>>
    /\ pl_saved = [k \in 1..pl_start |-> k]
    /\ RestPlIdle

\* the loop body up to the evaluation: step, iters = i + 1, the two writes
PPOLearnStep ==
    /\ pl_pc = "loop"
    /\ pl_i < PPONumIters(pl_config)
    /\ pl_state' = WorkflowStep(pl_state)
    /\ pl_log' = Logged(Logged(Logged(pl_log, "step", pl_i + 1),
                               "write workflow_metrics", pl_i + 1),
                        "write train_metrics", pl_i + 1)
    /\ pl_pc' = "eval"
    /\ UNCHANGED <<pl_config, pl_start, pl_i, pl_saved>>
    /\ UNCHANGED FramePl

\* if iters % eval_interval == 0: evaluate and write the eval metrics
PPOLearnEvaluate ==
    /\ pl_pc = "eval"
    /\ (pl_i + 1) % pl_config.eval_interval = 0
    /\ pl_state' = WorkflowEvaluate(pl_state)
    /\ pl_log' = Logged(Logged(pl_log, "evaluate", pl_i + 1), "write eval", pl_i + 1)
    /\ pl_pc' = "save"
    /\ UNCHANGED <<pl_config, pl_start, pl_i, pl_saved>>
    /\ UNCHANGED FramePl

\* checkpoint_manager.save(iters, ...), after the evaluation or without one,
\* and the next i
PPOLearnSave ==
    /\ \/ pl_pc = "save"
       \/ pl_pc = "eval" /\ (pl_i + 1) % pl_config.eval_interval # 0
    /\ pl_saved' = Append(pl_saved, pl_i + 1)
    /\ pl_log' = Logged(pl_log, "save", pl_i + 1)
    /\ pl_i' = pl_i + 1
    /\ pl_pc' = "loop"
    /\ UNCHANGED <<pl_config, pl_start, pl_state>>
    /\ UNCHANGED FramePl

\* the range is exhausted: return state
PPOLearnReturn ==
    /\ pl_pc = "loop"
    /\ pl_i >= PPONumIters(pl_config)
    /\ pl_pc' = "done"
    /\ UNCHANGED <<pl_config, pl_start, pl_state, pl_i, pl_log, pl_saved>>
    /\ UNCHANGED FramePl

SpecPPOLearn ==
    PPOLearnInit /\ [][PPOLearnStep \/ PPOLearnEvaluate \/ PPOLearnSave \/ PPOLearnReturn]_vars

\* the calls of one iteration with index iters, in order
IterationCalls(iters, eval_interval) ==
    <<[call |-> "step", index |-> iters],
      [call |-> "write workflow_metrics", index |-> iters],
      [call |-> "write train_metrics", index |-> iters]>>
    \o (IF iters % eval_interval = 0
        THEN <<[call |-> "evaluate", index |-> iters],
               [call |-> "write eval", index |-> iters]>>
        ELSE <<>>)
    \o <<[call |-> "save", index |-> iters]>>

\* the calls of the iterations a..b
RECURSIVE CallsOf(_, _, _)
CallsOf(a, b, eval_interval) ==
    IF b < a THEN <<>>
    ELSE CallsOf(a, b - 1, eval_interval) \o IterationCalls(b, eval_interval)

\* the training steps learn has made
StepsMade == Cardinality({k \in 1..Len(pl_log) : pl_log[k].call = "step"})

\* C29: learn started at iterations = s makes max(0, N - s) training steps;
\* for iters = s+1..N in order it writes the metrics at iters, evaluates iff
\* iters % eval_interval = 0, then saves index iters; no index is saved
\* twice, counting those of the run resumed from, and the state's iteration
\* counter is the index saved last
C29_LearnResumes ==
    LET N == PPONumIters(pl_config)
        expected == CallsOf(pl_start + 1, N, pl_config.eval_interval)
    IN  pl_pc # "idle" =>
          /\ Len(pl_log) <= Len(expected)
          /\ pl_log = SubSeq(expected, 1, Len(pl_log))
          /\ \A a, b \in 1..Len(pl_saved) : a # b => pl_saved[a] # pl_saved[b]
          /\ pl_state.metrics.iterations = pl_start + StepsMade
          /\ pl_pc \in {"loop", "done"} /\ pl_saved # <<>> =>
                pl_state.metrics.iterations = pl_saved[Len(pl_saved)]
          /\ pl_pc = "done" =>
                /\ pl_log = expected
                /\ StepsMade = (IF N > pl_start THEN N - pl_start ELSE 0)

\* a run resumed at iterations 2 has returned after two more iterations, one
\* of them with an evaluation
C29_Witness ==
    /\ pl_pc = "done" /\ pl_start = 2 /\ PPONumIters(pl_config) = 4
    /\ pl_config.eval_interval = 3
    /\ pl_saved = <<1, 2, 3, 4>>
    /\ \E k \in 1..Len(pl_log) : pl_log[k] = [call |-> "evaluate", index |-> 3]

====
